---- MODULE Spec2Model ----
(***************************************************************************)
(* Model of the sales bot (src/bot.py): the per-user order wizard          *)
(* (handle_callback_query), the text router (handle_message_input) with    *)
(* the quantity, manual-price and expense handlers, the draft table        *)
(* user_states, the in-process context.user_data and the two ledgers.      *)
(*                                                                         *)
(* Conventions.                                                            *)
(*  - A callback payload is a sequence of tokens; "type_Collar" is         *)
(*    <<"type_", "Collar">>.  str.startswith looks at the first token,     *)
(*    str.replace removes every occurrence of the token.                   *)
(*  - A Python dict is a function whose DOMAIN is the set of its keys.     *)
(*  - A float is an integer number of tenths (500.0 is 5000, 2.5 is 25).   *)
(*  - Each handling of an update names at most one external call that      *)
(*    raises (fail); every other call of that handling succeeds.           *)
(***************************************************************************)
EXTENDS Integers, Sequences, FiniteSets, TLC

VARIABLES
    user_states,        \* table user_states: user_id -> row (absent = no row)
    context_user_data,  \* context.user_data of each user (in-process dict)
    sales,              \* rows of the sheet "Продажи" appended by the bot
    expenses,           \* rows of the sheet "Расходы" appended by the bot
    reference_data,     \* what the cached get_reference_data() returns
    catalog_sheet,      \* data rows of the catalog sheet as they are now
    call,               \* arguments of the function applied on its own
    returned,           \* what that function returned (<<>> before the call)
    prompt,             \* per user: the message most recently rendered
    last,               \* who was served last, what was answered, what was logged
    orders,             \* /add commands so far
    strays,             \* inputs so far that the current prompt did not offer
    faults,             \* external calls that raised so far
    spreadsheet,        \* revision of the reference sheets of the spreadsheet
    lru_cache,          \* per cached function: <<>> or <<what it returned>>
    clock,              \* seconds since the process started
    reachable           \* whether the spreadsheet answers now

vars == <<user_states, context_user_data, sales, expenses, reference_data,
          catalog_sheet, call, returned, prompt, last, orders, strays, faults, spreadsheet, lru_cache, clock, reachable>>

----------------------------------------------------------------------------
(* Bounds of the exploration *)

MaxOrders == 1
MaxStrays == 1
MaxFaults == 1
MaxRows == 2
MaxExpenses == 1
MaxCatalogRows == 2
MaxChars == 3
MaxSales == 2
MaxEdits == 1
MaxTicks == 2
MaxUserOrders == 2

Users == {"u1", "u2"}
Operators == {"u1"}

----------------------------------------------------------------------------
(* Python values *)

None == "<None>"

Truthy(v) == v /= None /\ v /= ""

EmptyDict == [k \in {} |-> TRUE]

Has(d, k) == k \in DOMAIN d

Put(d, k, v) == [j \in DOMAIN d \cup {k} |-> IF j = k THEN v ELSE d[j]]

Del(d, k) == [j \in DOMAIN d \ {k} |-> d[j]]

RECURSIVE Join(_)
Join(tokens) ==
    IF tokens = <<>> THEN "" ELSE Head(tokens) \o Join(Tail(tokens))

StartsWith(callback_data, prefix) ==
    Len(callback_data) > 0 /\ callback_data[1] = prefix

Replace(callback_data, prefix) ==
    Join(SelectSeq(callback_data, LAMBDA t : t /= prefix))

Range(s) == {s[i] : i \in 1..Len(s)}

Today == "06.11.2026"

----------------------------------------------------------------------------
(* Reference data as the cached loaders return it *)

Channels == <<"Site">>

PaymentMethods == <<"Cash">>

ExpenseCategories == <<"Rent">>

\* Rows of the section "ТИПЫ ТОВАРОВ" a sheet may hold.
Collar   == [type |-> "Collar",   has_width |-> TRUE,  has_size |-> TRUE,  has_length |-> FALSE]
Leash    == [type |-> "Leash",    has_width |-> TRUE,  has_size |-> FALSE, has_length |-> TRUE]
Harness  == [type |-> "Harness",  has_width |-> TRUE,  has_size |-> TRUE,  has_length |-> TRUE]
Tag      == [type |-> "Tag",      has_width |-> FALSE, has_size |-> TRUE,  has_length |-> FALSE]
Toy      == [type |-> "Toy",      has_width |-> FALSE, has_size |-> FALSE, has_length |-> FALSE]
Lezhanka == [type |-> "Lezhanka", has_width |-> TRUE,  has_size |-> FALSE, has_length |-> FALSE]

\* Rows of the section "ШИРИНЫ СТРОП".
Wide   == [width |-> "25", available_sizes |-> <<"M">>, available_lengths |-> <<"2m">>]
Narrow == [width |-> "10", available_sizes |-> <<>>,    available_lengths |-> <<>>]

\* Rows of the section "ТИПЫ РАСЦВЕТОК".
Plain == [type |-> "Plain", available_colors |-> <<"Red">>]

\* The smallest complete reference sheet.
SmallSheet ==
    [product_types |-> <<Collar>>, widths |-> <<Wide>>, color_types |-> <<Plain>>]

\* Sheets with one product type of each combination of flags.
FlagSheets ==
    { [product_types |-> <<p>>, widths |-> <<Wide, Narrow>>,
       color_types |-> <<Plain>>] :
        p \in {Collar, Leash, Harness, Tag, Toy, Lezhanka} }

SimpleTypes == {"Lezhanka", "Busy"}

\* Data rows of the sheet "Каталог товаров" (columns 2..8 of each row).
Catalog == <<
    [product_type |-> "Collar", width |-> "25", size |-> "M", length |-> "",
     color_type |-> "Plain", color |-> "Red", price |-> ""],
    [product_type |-> "Collar", width |-> "25", size |-> "M", length |-> "",
     color_type |-> "Plain", color |-> "Red", price |-> "500"],
    [product_type |-> "Toy", width |-> "", size |-> "", length |-> "",
     color_type |-> "Plain", color |-> "Red", price |-> "n/a"],
    [product_type |-> "Toy", width |-> "", size |-> "", length |-> "",
     color_type |-> "Plain", color |-> "Red", price |-> "300"] >>

\* The price cells of Catalog on which float(clean_numeric_value(cell))
\* returns a number, with that number in tenths; on any other cell it
\* raises ValueError.
CellValue ==
    ("100" :> 1000) @@ ("200" :> 2000) @@ ("300" :> 3000) @@ ("500" :> 5000)

----------------------------------------------------------------------------
(* Keyboards: the callback payloads of the buttons of each prompt *)

CancelButton == <<"cancel">>

sales_channels_keyboard ==
    {<<Channels[i]>> : i \in 1..Len(Channels)} \cup {CancelButton}

product_types_keyboard ==
    {<<"type_", p.type>> : p \in Range(reference_data.product_types)}
        \cup {CancelButton}

widths_keyboard ==
    {<<"width_", w.width>> : w \in Range(reference_data.widths)}
        \cup {CancelButton}

\* next((w for w in ref_data["widths"] if w["width"] == selected_width), None)
WidthData(selected_width) ==
    SelectSeq(reference_data.widths, LAMBDA w : w.width = selected_width)

sizes_keyboard(selected_width) ==
    LET width_data == WidthData(selected_width) IN
    (IF width_data /= <<>>
        THEN {<<"size_", s>> : s \in Range(width_data[1].available_sizes)}
        ELSE {}) \cup {CancelButton}

lengths_keyboard(selected_width) ==
    LET width_data == WidthData(selected_width) IN
    (IF width_data /= <<>>
        THEN {<<"length_", l>> : l \in Range(width_data[1].available_lengths)}
        ELSE {}) \cup {CancelButton}

color_types_keyboard ==
    {<<"colortype_", ct.type>> : ct \in Range(reference_data.color_types)}
        \cup {CancelButton}

colors_keyboard(selected_color_type) ==
    LET color_type_data ==
            SelectSeq(reference_data.color_types,
                      LAMBDA ct : ct.type = selected_color_type) IN
    (IF color_type_data /= <<>>
        THEN {<<"color_", c>> : c \in Range(color_type_data[1].available_colors)}
        ELSE {}) \cup {CancelButton}

payment_methods_keyboard ==
    {<<"payment_", PaymentMethods[i]>> : i \in 1..Len(PaymentMethods)}
        \cup {<<"manual_price">>, CancelButton}

expense_categories_keyboard ==
    {<<"expense_cat_", ExpenseCategories[i]>> : i \in 1..Len(ExpenseCategories)}
        \cup {CancelButton}

\* A rendered message: what it says (kind) and the buttons under it.
Message(kind, options) == [kind |-> kind, options |-> options]

Text(kind) == Message(kind, {})

----------------------------------------------------------------------------
(* Price lookup *)

\* str(text).lower().strip(): each string of the model stands for its own
\* normal form, except the ones below.
Canon == ("None" :> "none") @@ ("RED " :> "Red") @@ (" 25" :> "25")

lower_strip(text) == IF text \in DOMAIN Canon THEN Canon[text] ELSE text

\* def normalize(text): return str(text).lower().strip() if text else ""
normalize(text) == IF Truthy(text) THEN lower_strip(text) ELSE ""

\* "and catalog_price" followed by float(...) not raising ValueError
Priced(row) == row.price /= "" /\ row.price \in DOMAIN CellValue

PriceOf(row) == CellValue[row.price]

\* len(row): a data row of the model has all its cells unless it says
\* otherwise.
MinCells == 9

Cells(row) == IF "cells" \in DOMAIN row THEN row.cells ELSE MinCells

\* No loop has returned.
NotFound == -1

\* FirstFound with the search by type and colour run first.
FirstFound_byColorFirst(exact, simplified, byColor) ==
    IF byColor /= NotFound THEN byColor
    ELSE IF simplified /= NotFound THEN simplified
    ELSE IF exact /= NotFound THEN exact
    ELSE 0

\* The order of the three loops: the first that returns decides, and 0 is
\* returned when none does (lines 406-518).
FirstFound(exact, simplified, byColor) ==
    IF exact /= NotFound THEN exact
    ELSE IF simplified /= NotFound THEN simplified
    ELSE IF byColor /= NotFound THEN byColor
    ELSE 0

\* optional_match with the query's value always compared.
optional_match_strict(norm, catalog) == catalog = norm

\* width_match, size_match, length_match (lines 425-427):
\* (not norm_x) or (catalog_x == norm_x)
optional_match(norm, catalog) == norm = "" \/ catalog = norm

\* The three loops over the data rows of the sheet, each returning at the
\* first row that matches and whose price cell is non-empty and converts,
\* and going on to the next row otherwise; 0 when the sheet cannot be read.
get_product_price_from_catalog(product_type, width0, size0, length0, color_type, color, readable) ==
    LET size   == IF size0 = "None" THEN "" ELSE size0
        width  == IF width0 = "None" THEN "" ELSE width0
        length == IF length0 = "None" THEN "" ELSE length0
        norm_product_type == normalize(product_type)
        norm_width        == normalize(width)
        norm_size         == normalize(size)
        norm_length       == normalize(length)
        norm_color_type   == normalize(color_type)
        norm_color        == normalize(color)
        all_data == catalog_sheet
        Exact(row) ==
            /\ normalize(row.product_type) = norm_product_type
            /\ optional_match(norm_width, normalize(row.width))
            /\ optional_match(norm_size, normalize(row.size))
            /\ optional_match(norm_length, normalize(row.length))
            /\ normalize(row.color_type) = norm_color_type
            /\ normalize(row.color) = norm_color
        Simplified(row) ==
            /\ normalize(row.product_type) = norm_product_type
            /\ normalize(row.color_type) = norm_color_type
            /\ normalize(row.color) = norm_color
        TypeAndColor(row) ==
            /\ normalize(row.product_type) = norm_product_type
            /\ normalize(row.color) = norm_color
        RECURSIVE exact(_), simplified(_), byColor(_)
        exact(i) ==
            IF i > Len(all_data) THEN NotFound
            ELSE IF Cells(all_data[i]) < MinCells THEN exact(i + 1)
            ELSE IF Exact(all_data[i]) /\ all_data[i].price /= ""
                THEN IF all_data[i].price \in DOMAIN CellValue
                        THEN PriceOf(all_data[i]) ELSE exact(i + 1)
            ELSE exact(i + 1)
        simplified(i) ==
            IF i > Len(all_data) THEN NotFound
            ELSE IF Cells(all_data[i]) < MinCells THEN simplified(i + 1)
            ELSE IF Simplified(all_data[i]) /\ all_data[i].price /= ""
                THEN IF all_data[i].price \in DOMAIN CellValue
                        THEN PriceOf(all_data[i]) ELSE simplified(i + 1)
            ELSE simplified(i + 1)
        byColor(i) ==
            IF i > Len(all_data) THEN NotFound
            ELSE IF Cells(all_data[i]) < MinCells THEN byColor(i + 1)
            ELSE IF TypeAndColor(all_data[i]) /\ all_data[i].price /= ""
                THEN IF all_data[i].price \in DOMAIN CellValue
                        THEN PriceOf(all_data[i]) ELSE byColor(i + 1)
            ELSE byColor(i + 1)
    IN  IF ~readable THEN 0
        ELSE FirstFound(exact(1), simplified(1), byColor(1))

PriceFor(user_data, readable) ==
    get_product_price_from_catalog(
        user_data.product_type, user_data.width, user_data.size,
        user_data.length, user_data.color_type, user_data.color, readable)

----------------------------------------------------------------------------
(* The table user_states *)

Columns == {"channel", "product_type", "width", "size", "length",
            "color_type", "color", "payment_method"}

\* INSERT INTO user_states (user_id, channel) ... ON CONFLICT DO UPDATE
InsertChannel(table, u, channel) ==
    IF u \in DOMAIN table
        THEN [table EXCEPT ![u].channel = channel]
        ELSE Put(table, u, [c \in Columns |->
                               IF c = "channel" THEN channel ELSE None])

\* An UPDATE without the WHERE clause.
Update_everyRow(table, u, column, value) ==
    [v \in DOMAIN table |-> [table[v] EXCEPT ![column] = value]]

\* UPDATE user_states SET column = value WHERE user_id = u
Update(table, u, column, value) ==
    IF u \in DOMAIN table THEN [table EXCEPT ![u][column] = value] ELSE table

\* A DELETE whose WHERE clause matches no row.
Delete_noRow(table, u) == table

\* DELETE FROM user_states WHERE user_id = u
Delete(table, u) == Del(table, u)

----------------------------------------------------------------------------
(* What the handling of one update does: the new table, the new
   context.user_data of the user, the new sheets, the message rendered
   (the old one when nothing is rendered), the answer and the call that
   raised *)

Result(us, ctx, sl, ex, pr, ev, err) ==
    [us |-> us, ctx |-> ctx, sl |-> sl, ex |-> ex, pr |-> pr,
     ev |-> ev, err |-> err]

\* The external calls of a handling that may raise.
CallbackCalls == {"none", "select", "write", "reselect", "catalog"}

MessageCalls == {"none", "append", "write"}

CommandCalls == {"none", "write"}

\* No call raises once MaxFaults calls have.
MayFail(calls, mode) ==
    IF mode = "faults" /\ faults < MaxFaults THEN calls ELSE {"none"}

\* next((p for p in ref_data["product_types"] if p["type"] == product_type), None)
ProductInfo(product_type) ==
    SelectSeq(reference_data.product_types, LAMBDA p : p.type = product_type)

\* PromptAfterType without the test of has_width.
PromptAfterType_widthAlways(product_type, product_info) ==
    IF product_type \in SimpleTypes
        THEN Message("colortypes", color_types_keyboard)
    ELSE Message("widths", widths_keyboard)

\* The prompt that follows an accepted product type (lines 1263-1296).
PromptAfterType(product_type, product_info) ==
    IF product_type \in SimpleTypes
        THEN Message("colortypes", color_types_keyboard)
    ELSE IF product_info.has_width
        THEN Message("widths", widths_keyboard)
    ELSE IF product_info.has_size
        THEN Message("sizes", sizes_keyboard(""))
    ELSE IF product_info.has_length
        THEN Message("lengths", lengths_keyboard(""))
    ELSE Message("colortypes", color_types_keyboard)

\* PromptAfterWidth with has_length tested before has_size.
PromptAfterWidth_lengthFirst(width, product_info) ==
    IF product_info.has_length
        THEN Message("lengths", lengths_keyboard(width))
    ELSE IF product_info.has_size
        THEN Message("sizes", sizes_keyboard(width))
    ELSE Message("colortypes", color_types_keyboard)

\* The prompt that follows an accepted width (lines 1342-1358).
PromptAfterWidth(width, product_info) ==
    IF product_info.has_size
        THEN Message("sizes", sizes_keyboard(width))
    ELSE IF product_info.has_length
        THEN Message("lengths", lengths_keyboard(width))
    ELSE Message("colortypes", color_types_keyboard)

\* PromptAfterSize with the length asked next when the type has one.
PromptAfterSize_thenLength(user_state) ==
    IF ProductInfo(user_state.product_type) /= <<>>
            /\ ProductInfo(user_state.product_type)[1].has_length
        THEN Message("lengths", lengths_keyboard(user_state.width))
    ELSE Message("colortypes", color_types_keyboard)

\* The prompt that follows an accepted size (lines 1379-1383): the colour
\* types, whatever the flags of the product type.
PromptAfterSize(user_state) == Message("colortypes", color_types_keyboard)

\* The conditions of the if-chain of handle_callback_query, in its order.
ChannelStep(table, u) ==
    u \notin DOMAIN table \/ ~Truthy(table[u].channel)

TypeStep(callback_data, user_state) ==
    StartsWith(callback_data, "type_") /\ ~Truthy(user_state.product_type)

WidthStep(callback_data, user_state) ==
    StartsWith(callback_data, "width_") /\ ~Truthy(user_state.width)

SizeStep(callback_data, user_state) ==
    StartsWith(callback_data, "size_") /\ ~Truthy(user_state.size)

LengthStep(callback_data, user_state) ==
    StartsWith(callback_data, "length_") /\ ~Truthy(user_state.length)

ColorTypeStep(callback_data, user_state) ==
    StartsWith(callback_data, "colortype_") /\ ~Truthy(user_state.color_type)

\* ColorStep without the test that the colour is still unset.
ColorStep_unguarded(callback_data, user_state) ==
    StartsWith(callback_data, "color_")

ColorStep(callback_data, user_state) ==
    StartsWith(callback_data, "color_") /\ ~Truthy(user_state.color)

ManualPriceStep(callback_data, user_state) ==
    Join(callback_data) = "manual_price" /\ ~Truthy(user_state.payment_method)

PaymentStep(callback_data, user_state) ==
    StartsWith(callback_data, "payment_") /\ ~Truthy(user_state.payment_method)

ReportButtons == {"report_channels", "report_products", "report_expenses"}

handle_callback_query(u, callback_data, fail) ==
    LET ctx == context_user_data[u]
        Keep(pr, ev) ==
            Result(user_states, ctx, sales, expenses, pr, ev, "none")
        Failed(us, c, raised) ==
            Result(us, c, sales, expenses, Text("error_add"), "error_add", raised)
        Stored(us, c, pr) ==
            Result(us, c, sales, expenses, pr, pr.kind, "none")
        \* a plain column update followed by a fixed prompt
        Column(column, prefix, pr) ==
            IF fail = "write" THEN Failed(user_states, ctx, "write")
            ELSE Stored(Update(user_states, u, column,
                               Replace(callback_data, prefix)), ctx, pr)
    IN
    IF Join(callback_data) = "cancel" THEN
        Result(IF fail = "write" THEN user_states ELSE Delete(user_states, u),
               ctx, sales, expenses, Text("cancelled"), "cancelled",
               IF fail = "write" THEN "write" ELSE "none")
    ELSE IF Join(callback_data) \in ReportButtons THEN
        Keep(Text("report"), "report")
    ELSE IF StartsWith(callback_data, "expense_cat_") THEN
        Stored(user_states,
               Put(ctx, "expense_data",
                   [category |-> Replace(callback_data, "expense_cat_")]),
               Text("expense_amount_prompt"))
    ELSE IF fail = "select" THEN
        Failed(user_states, ctx, "select")
    ELSE IF ChannelStep(user_states, u) THEN
        IF fail = "write" THEN Failed(user_states, ctx, "write")
        ELSE Stored(InsertChannel(user_states, u, Join(callback_data)), ctx,
                    Message("types", product_types_keyboard))
    ELSE
    LET user_state == user_states[u] IN
    IF TypeStep(callback_data, user_state) THEN
        LET product_type == Replace(callback_data, "type_")
            product_info == ProductInfo(product_type)
            stored == Update(user_states, u, "product_type", product_type)
        IN  IF fail = "write" THEN Failed(user_states, ctx, "write")
            ELSE IF product_info = <<>> THEN
                Result(stored, ctx, sales, expenses, Text("error_add"),
                       "type_unknown", "none")
            ELSE Stored(stored, ctx,
                        PromptAfterType(product_type, product_info[1]))
    ELSE IF WidthStep(callback_data, user_state) THEN
        LET width == Replace(callback_data, "width_")
            stored == Update(user_states, u, "width", width)
            product_info == ProductInfo(stored[u].product_type)
        IN  IF fail = "write" THEN Failed(user_states, ctx, "write")
            ELSE IF fail = "reselect" THEN Failed(stored, ctx, "reselect")
            ELSE IF product_info = <<>> THEN
                Result(stored, ctx, sales, expenses, Text("type_not_found"),
                       "type_not_found", "none")
            ELSE Stored(stored, ctx, PromptAfterWidth(width, product_info[1]))
    ELSE IF SizeStep(callback_data, user_state) THEN
        Column("size", "size_", PromptAfterSize(user_state))
    ELSE IF LengthStep(callback_data, user_state) THEN
        Column("length", "length_", Message("colortypes", color_types_keyboard))
    ELSE IF ColorTypeStep(callback_data, user_state) THEN
        Column("color_type", "colortype_",
               Message("colors",
                       colors_keyboard(Replace(callback_data, "colortype_"))))
    ELSE IF ColorStep(callback_data, user_state) THEN
        Column("color", "color_", Message("payments", payment_methods_keyboard))
    ELSE IF ManualPriceStep(callback_data, user_state) THEN
        LET flagged == Put(ctx, "manual_price_input", TRUE)
            price == PriceFor(user_state, fail /= "catalog")
        IN  IF fail = "reselect" THEN Failed(user_states, flagged, "reselect")
            ELSE Result(user_states,
                        Put(Put(flagged, "user_data", user_state),
                            "auto_price", price),
                        sales, expenses, Text("manual_price_prompt"),
                        "manual_price_prompt",
                        IF fail = "catalog" THEN "catalog" ELSE "none")
    ELSE IF PaymentStep(callback_data, user_state) THEN
        LET stored == Update(user_states, u, "payment_method",
                             Replace(callback_data, "payment_"))
            user_data == stored[u]
            price == PriceFor(user_data, fail /= "catalog")
        IN  IF fail = "write" THEN Failed(user_states, ctx, "write")
            ELSE IF fail = "reselect" THEN Failed(stored, ctx, "reselect")
            ELSE Result(stored,
                        Put(Put(ctx, "price", price), "user_data", user_data),
                        sales, expenses, Text("quantity_prompt"),
                        "quantity_prompt",
                        IF fail = "catalog" THEN "catalog" ELSE "none")
    ELSE Keep(prompt[u], "ignored")

----------------------------------------------------------------------------
(* Text messages *)

Texts == {"abc", "0", "-1", "2", "2.5"}

\* int(text.strip()): the texts on which it returns, with the result.
IntValue == ("0" :> 0) @@ ("-1" :> -1) @@ ("2" :> 2)

\* float(text.strip().replace(",", ".")), in tenths.
FloatValue == ("0" :> 0) @@ ("-1" :> -10) @@ ("2" :> 20) @@ ("2.5" :> 25)

GetOr(d, k, default) == IF Has(d, k) THEN d[k] ELSE default

OrEmpty(v) == IF Truthy(v) THEN v ELSE ""

\* context.user_data.get("manual_price") or context.user_data.get("price", 0)
PriceToUse(ctx) ==
    IF Has(ctx, "manual_price") /\ ctx["manual_price"] /= 0
        THEN ctx["manual_price"]
        ELSE GetOr(ctx, "price", 0)

record_data(user_data, quantity, price) ==
    << user_data["channel"], user_data["product_type"],
       OrEmpty(user_data["width"]), OrEmpty(user_data["size"]),
       OrEmpty(user_data["length"]), OrEmpty(user_data["color_type"]),
       user_data["color"], quantity, price, price * quantity,
       user_data["payment_method"], Today >>

\* write_sale with the cleanup done before the append is known to succeed.
write_sale_cleanupFirst(u, row, fail) ==
    Result(IF fail = "write" THEN user_states ELSE Delete(user_states, u),
           context_user_data[u],
           IF fail = "append" THEN sales ELSE Append(sales, row), expenses,
           Text(IF fail = "append" THEN "write_error" ELSE "sale_added"),
           IF fail = "append" THEN "write_error" ELSE "sale_added", fail)

\* write_sale with the row inserted above the rows of the sheet.
write_sale_onTop(u, row, fail) ==
    IF fail = "append" THEN
        Result(user_states, context_user_data[u], sales, expenses,
               Text("write_error"), "write_error", "append")
    ELSE
        Result(IF fail = "write" THEN user_states ELSE Delete(user_states, u),
               context_user_data[u], <<row>> \o sales, expenses,
               Text("sale_added"), "sale_added",
               IF fail = "write" THEN "write" ELSE "none")

\* The write and the cleanup of a sale (lines 1605-1650): the row is
\* appended, then the draft is deleted; a failed append answers and
\* returns before the cleanup, a failed delete is only logged.
write_sale(u, row, fail) ==
    IF fail = "append" THEN
        Result(user_states, context_user_data[u], sales, expenses,
               Text("write_error"), "write_error", "append")
    ELSE
        Result(IF fail = "write" THEN user_states ELSE Delete(user_states, u),
               context_user_data[u], Append(sales, row), expenses,
               Text("sale_added"), "sale_added",
               IF fail = "write" THEN "write" ELSE "none")

handle_quantity(u, text, fail) ==
    LET ctx == context_user_data[u]
        Keep(pr, ev) ==
            Result(user_states, ctx, sales, expenses, pr, ev, "none")
    IN
    IF GetOr(ctx, "manual_price_input", FALSE) THEN
        Keep(prompt[u], "ignored")
    ELSE IF text \notin DOMAIN IntValue THEN
        Keep(Text("quantity_not_integer"), "quantity_not_integer")
    ELSE IF IntValue[text] <= 0 THEN
        Keep(Text("quantity_not_positive"), "quantity_not_positive")
    ELSE IF ~Has(ctx, "user_data") THEN
        \* user_data = {} and user_data["channel"] raises KeyError
        Keep(prompt[u], "exception")
    ELSE
        write_sale(u, record_data(ctx["user_data"], IntValue[text],
                                  PriceToUse(ctx)), fail)

handle_manual_price(u, text, fail) ==
    LET ctx == context_user_data[u]
        Keep(pr, ev) ==
            Result(user_states, ctx, sales, expenses, pr, ev, "none")
    IN
    IF text \notin DOMAIN FloatValue THEN
        Keep(Text("price_not_number"), "price_not_number")
    ELSE IF FloatValue[text] <= 0 THEN
        Keep(Text("price_not_positive"), "price_not_positive")
    ELSE
        Result(user_states,
               Put(Put(ctx, "manual_price", FloatValue[text]),
                   "manual_price_input", FALSE),
               sales, expenses, Message("payments", payment_methods_keyboard),
               "payments", "none")

\* Works on the context it is given: its callers store the comment first.
save_expense_to_sheet(u, ctx, fail) ==
    LET expense_data == GetOr(ctx, "expense_data", EmptyDict)
        row == << GetOr(expense_data, "category", ""),
                  GetOr(expense_data, "amount", 0), Today,
                  GetOr(expense_data, "comment", "") >>
    IN
    IF expense_data = EmptyDict THEN
        Result(user_states, ctx, sales, expenses, Text("expense_not_found"),
               "expense_not_found", "none")
    ELSE IF fail = "append" THEN
        Result(user_states, ctx, sales, expenses, Text("write_error"),
               "expense_write_error", "append")
    ELSE IF ~Has(expense_data, "category") \/ ~Has(expense_data, "amount") THEN
        \* the row is written, then building the answer raises KeyError,
        \* which the same except clause answers
        Result(user_states, ctx, sales, Append(expenses, row),
               Text("write_error"), "expense_write_error", "none")
    ELSE
        Result(user_states, Del(ctx, "expense_data"), sales,
               Append(expenses, row), Text("expense_added"), "expense_added",
               "none")

handle_expense_amount(u, text, fail) ==
    LET ctx == context_user_data[u]
        Keep(pr, ev) ==
            Result(user_states, ctx, sales, expenses, pr, ev, "none")
        expense_data == GetOr(ctx, "expense_data", EmptyDict)
    IN
    IF text \notin DOMAIN FloatValue THEN
        Keep(Text("amount_not_number"), "amount_not_number")
    ELSE IF FloatValue[text] <= 0 THEN
        Keep(Text("amount_not_positive"), "amount_not_positive")
    ELSE
        Result(user_states,
               Put(ctx, "expense_data",
                   Put(expense_data, "amount", FloatValue[text])),
               sales, expenses, Text("expense_comment_prompt"),
               "expense_comment_prompt", "none")

handle_expense_comment(u, text, fail) ==
    LET ctx == context_user_data[u] IN
    save_expense_to_sheet(u,
        Put(ctx, "expense_data", Put(ctx["expense_data"], "comment", text)),
        fail)

skip_expense_comment(u, fail) ==
    LET ctx == context_user_data[u]
        expense_data == GetOr(ctx, "expense_data", EmptyDict)
    IN  save_expense_to_sheet(u,
            Put(ctx, "expense_data", Put(expense_data, "comment", "")), fail)

\* The second definition of handle_message_input (the one in force).
handle_message_input(u, text, fail) ==
    LET ctx == context_user_data[u] IN
    IF GetOr(ctx, "manual_price_input", FALSE) THEN
        handle_manual_price(u, text, fail)
    ELSE IF Has(ctx, "expense_data") THEN
        IF ~Has(ctx["expense_data"], "amount")
            THEN handle_expense_amount(u, text, fail)
            ELSE handle_expense_comment(u, text, fail)
    ELSE handle_quantity(u, text, fail)

\* add_entry without the DELETE.
add_entry_keepsDraft(u, fail) ==
    Result(user_states, context_user_data[u], sales, expenses,
           Message("channels", sales_channels_keyboard), "channels", "none")

\* /add (lines 1096-1114): the draft is deleted, a failure of the delete is
\* only logged, and the channel keyboard is sent in either case.
add_entry(u, fail) ==
    Result(IF fail = "write" THEN user_states ELSE Delete(user_states, u),
           context_user_data[u], sales, expenses,
           Message("channels", sales_channels_keyboard), "channels",
           IF fail = "write" THEN "write" ELSE "none")

add_expense(u, fail) ==
    Result(user_states, Del(context_user_data[u], "expense_data"), sales,
           expenses, Message("expense_categories", expense_categories_keyboard),
           "expense_categories", "none")

----------------------------------------------------------------------------
(* The operator's side: which inputs the current prompt offers *)

AllButtons ==
    UNION { sales_channels_keyboard, product_types_keyboard, widths_keyboard,
            color_types_keyboard, payment_methods_keyboard,
            expense_categories_keyboard,
            UNION {sizes_keyboard(w.width) : w \in Range(reference_data.widths)},
            UNION {lengths_keyboard(w.width) : w \in Range(reference_data.widths)},
            UNION {colors_keyboard(ct.type) :
                      ct \in Range(reference_data.color_types)} }

\* Payloads no keyboard carries.
ForeignButtons ==
    { <<"junk">>, <<"type_", "Ghost">>, <<"width_", "99">>, <<"size_", "XL">>,
      <<"length_", "9m">>, <<"colortype_", "Ghost">>, <<"color_", "Ghost">>,
      <<"payment_", "Ghost">>, <<"report_channels">> }

Buttons == AllButtons \cup ForeignButtons

\* The payloads the operator sends: every button of every keyboard, a
\* payload of no handler, an unknown product type and a report button.
Pressable ==
    AllButtons \cup {<<"junk">>, <<"type_", "Ghost">>, <<"report_channels">>}

\* The messages that ask for a text.
AsksText ==
    { "quantity_prompt", "quantity_not_integer", "quantity_not_positive",
      "write_error", "manual_price_prompt", "price_not_number",
      "price_not_positive", "expense_amount_prompt", "amount_not_number",
      "amount_not_positive", "expense_comment_prompt" }

OfferedButton(u, callback_data) == callback_data \in prompt[u].options

OfferedText(u) == prompt[u].kind \in AsksText

OfferedSkip(u) == prompt[u].kind = "expense_comment_prompt"

----------------------------------------------------------------------------
(* Actions *)

\* One handling.  mode = "strays": the input may be one the current prompt
\* does not offer; mode = "faults": one external call may raise.
Apply(u, r, offered, mode) ==
    /\ orders' = IF r.ev = "channels" THEN orders + 1 ELSE orders
    /\ offered \/ (mode = "strays" /\ strays < MaxStrays)
    /\ Len(r.sl) <= MaxRows
    /\ Len(r.ex) <= MaxExpenses
    /\ user_states' = r.us
    /\ context_user_data' = [context_user_data EXCEPT ![u] = r.ctx]
    /\ sales' = r.sl
    /\ expenses' = r.ex
    /\ reference_data' = reference_data
    /\ catalog_sheet' = catalog_sheet
    /\ UNCHANGED <<call, returned, spreadsheet, lru_cache, clock, reachable>>
    /\ prompt' = [prompt EXCEPT ![u] = r.pr]
    /\ last' = [user |-> u, event |-> r.ev, error |-> r.err]
    /\ faults' = IF r.err = "none" THEN faults ELSE faults + 1
    /\ strays' = IF offered THEN strays ELSE strays + 1

AddEntry(u, mode) ==
    /\ orders < MaxOrders
    /\ \E fail \in MayFail(CommandCalls, mode) :
        Apply(u, add_entry(u, fail), TRUE, mode)

AddExpense(u, mode) ==
    Apply(u, add_expense(u, "none"), TRUE, mode)

SkipExpenseComment(u, mode) ==
    \E fail \in MayFail(MessageCalls, mode) :
        Apply(u, skip_expense_comment(u, fail), OfferedSkip(u), mode)

CallbackQuery(u, mode) ==
    \E callback_data \in Pressable, fail \in MayFail(CallbackCalls, mode) :
        Apply(u, handle_callback_query(u, callback_data, fail),
              OfferedButton(u, callback_data), mode)

MessageInput(u, mode) ==
    \E text \in Texts, fail \in MayFail(MessageCalls, mode) :
        Apply(u, handle_message_input(u, text, fail), OfferedText(u), mode)

\* The functions under @lru_cache(maxsize=1) that load reference data
\* (lines 210, 244, 278, 784).
CachedFunctions == {"get_channels_from_sheet", "get_payment_methods_from_sheet", "get_reference_data", "get_expense_categories_from_sheet"}

\* line 29
CACHE_TTL_SECONDS == 300

TickSeconds == 200

\* What the body of f returns when the worksheet lookup or the read
\* raises: [] (lines 218-224, 239-241, 798-800, 813-815), the built-in
\* payment methods (257-258, 273-275) or {} (286-290, 368-370).
Unavailable == -1

\* What the body of f returns now: what it reads from the spreadsheet, or
\* the result of its except clause.
Fetched(f) == [function |-> f, revision |-> IF reachable THEN spreadsheet ELSE Unavailable]

\* A call of f(): lru_cache returns the stored result whenever there is
\* one; the body runs only on an empty cache.  fetched_at is not in the
\* program: it records the time of the call that ran the body.
Hit(f) == lru_cache[f] /= <<>>

Served(f) == IF Hit(f) THEN lru_cache[f][1].value ELSE Fetched(f)

AfterCall(f) ==
    IF Hit(f) THEN lru_cache
    ELSE [lru_cache EXCEPT ![f] = <<[value |-> Fetched(f), fetched_at |-> clock]>>]

Age(f) == IF Hit(f) THEN clock - lru_cache[f][1].fetched_at ELSE 0

WizardVars == <<user_states, context_user_data, sales, expenses, reference_data, catalog_sheet, prompt, last, orders, strays, faults>>

Load(f) ==
    /\ call' = f
    /\ returned' = <<Served(f)>>
    /\ lru_cache' = AfterCall(f)
    /\ UNCHANGED <<WizardVars, spreadsheet, clock, reachable>>

\* Somebody edits a reference sheet in the spreadsheet.
EditSheet ==
    /\ spreadsheet < MaxEdits
    /\ spreadsheet' = spreadsheet + 1
    /\ UNCHANGED <<WizardVars, call, returned, lru_cache, clock, reachable>>

Tick ==
    /\ clock < MaxTicks * TickSeconds
    /\ clock' = clock + TickSeconds
    /\ UNCHANGED <<WizardVars, call, returned, lru_cache, spreadsheet, reachable>>

\* The spreadsheet stops answering, or answers again.
Outage ==
    /\ reachable' = ~reachable
    /\ UNCHANGED <<WizardVars, call, returned, lru_cache, spreadsheet, clock>>

\* /clearcache, lines 1801-1815
ClearedByCommand == {"get_channels_from_sheet", "get_payment_methods_from_sheet", "get_reference_data"}

clear_cache ==
    /\ lru_cache' = [f \in CachedFunctions |-> IF f \in ClearedByCommand THEN <<>> ELSE lru_cache[f]]
    /\ UNCHANGED <<WizardVars, call, returned, spreadsheet, clock, reachable>>

LoadAny == \E f \in CachedFunctions : Load(f)

NextCache == LoadAny \/ EditSheet \/ Tick \/ Outage \/ clear_cache

\* Nobody has used the bot yet.
Quiet ==
    /\ user_states = EmptyDict
    /\ context_user_data = [u \in Users |-> EmptyDict]
    /\ sales = <<>>
    /\ expenses = <<>>
    /\ prompt = [u \in Users |-> Text("none")]
    /\ last = [user |-> "nobody", event |-> "none", error |-> "none"]
    /\ orders = 0
    /\ strays = 0
    /\ faults = 0
    /\ spreadsheet = 0
    /\ lru_cache = [f \in CachedFunctions |-> <<>>]
    /\ clock = 0
    /\ reachable = TRUE

Start ==
    /\ Quiet
    /\ catalog_sheet = Catalog
    /\ call = <<>>
    /\ returned = <<>>

Init == Start /\ reference_data = SmallSheet

\* The sale wizard under any input at any time, every external call
\* succeeding.
Next ==
    \E u \in Operators :
        \/ AddEntry(u, "strays")
        \/ CallbackQuery(u, "strays")
        \/ MessageInput(u, "strays")

Spec == Init /\ [][Next]_vars

\* The sale wizard when every input is one the most recently rendered
\* prompt offers and external calls may raise, on each of the sheets of
\* FlagSheets.
InitFlags == Start /\ reference_data \in FlagSheets

OfferedAddEntry(u) == AddEntry(u, "faults")

OfferedCallbackQuery(u) == CallbackQuery(u, "faults")

OfferedMessageInput(u) == MessageInput(u, "faults")

NextOffered ==
    \E u \in Operators :
        \/ OfferedAddEntry(u)
        \/ OfferedCallbackQuery(u)
        \/ OfferedMessageInput(u)

SpecOffered == InitFlags /\ [][NextOffered]_vars

\* The owner of the spreadsheet changes the price cell of the second row
\* of the catalog (the sheet is read anew by every search, lines 378-380).
Repriced ==
    [Catalog EXCEPT ![2].price = "300"]

EditCatalog ==
    /\ catalog_sheet = Catalog
    /\ catalog_sheet' = Repriced
    /\ UNCHANGED <<user_states, context_user_data, sales, expenses,
                   reference_data, call, returned, prompt, last, orders,
                   strays, faults, spreadsheet, lru_cache, clock, reachable>>

\* The sale wizard, every input offered and every call succeeding, while
\* the catalog is edited.
OrderAddEntry(u) == AddEntry(u, "none")

OrderCallbackQuery(u) == CallbackQuery(u, "none")

OrderMessageInput(u) == MessageInput(u, "none")

NextCatalog ==
    \/ EditCatalog
    \/ \E u \in Operators :
        \/ OrderAddEntry(u)
        \/ OrderCallbackQuery(u)
        \/ OrderMessageInput(u)

SpecCatalog == Init /\ [][NextCatalog]_vars

\* get_product_price_from_catalog applied on its own to a query, on each
\* catalog of MaxCatalogRows rows drawn from TierRows: rows for one product
\* type that differ in width, colour type and colour, whose price cell is
\* empty, not a number, or a number that tells the row's position, and
\* rows that lack cells.
PositionPrice == <<"100", "200", "300">>

TierRow(i, width, color_type, color, kind) ==
    LET row == [product_type |-> "Toy", width |-> width, size |-> "",
                length |-> "", color_type |-> color_type, color |-> color,
                price |-> IF kind \in {"priced", "short"} THEN PositionPrice[i]
                          ELSE IF kind = "empty" THEN "" ELSE "n/a"]
    IN  IF kind = "short" THEN row @@ [cells |-> MinCells - 1] ELSE row

TierRows(i) ==
    {TierRow(i, width, color_type, color, kind) :
        width \in {"25", "10"}, color_type \in {"Plain", "Dots"},
        color \in {"Red", "Blue"},
        kind \in {"priced", "empty", "unparsable", "short"}}

TierCatalogs ==
    {rows \in [1..MaxCatalogRows -> UNION {TierRows(i) : i \in 1..MaxCatalogRows}] :
        \A i \in 1..MaxCatalogRows : rows[i] \in TierRows(i)}

TierQueries ==
    {[product_type |-> "Toy", width |-> width, size |-> None, length |-> None,
      color_type |-> "Plain", color |-> "Red"] : width \in {None, "25"}}

InitTiers ==
    /\ Quiet
    /\ reference_data = SmallSheet
    /\ catalog_sheet \in TierCatalogs
    /\ call \in TierQueries
    /\ returned = <<>>

PriceSearch ==
    /\ returned = <<>>
    /\ returned' = <<PriceFor(call, TRUE)>>
    /\ UNCHANGED <<user_states, context_user_data, sales, expenses,
                   reference_data, catalog_sheet, call, prompt, last, orders,
                   strays, faults, spreadsheet, lru_cache, clock, reachable>>

SpecTiers == InitTiers /\ [][PriceSearch]_vars

\* get_product_price_from_catalog applied on its own to queries that carry
\* the string "None", on catalogs whose rows leave attributes empty.
NoneRows(i) ==
    {[product_type |-> "Toy", width |-> width, size |-> "", length |-> "",
      color_type |-> color_type, color |-> color, price |-> PositionPrice[i]] :
        width \in {"", "25"}, color_type \in {"", "Plain"},
        color \in {"", "Red"}}

NoneCatalogs ==
    {rows \in [1..MaxCatalogRows -> UNION {NoneRows(i) : i \in 1..MaxCatalogRows}] :
        \A i \in 1..MaxCatalogRows : rows[i] \in NoneRows(i)}

NoneQueries ==
    {[product_type |-> "Toy", width |-> width, size |-> "None",
      length |-> None, color_type |-> color_type, color |-> color] :
        width \in {"None", "25"}, color_type \in {"None", "Plain"},
        color \in {"None", "Red"}}

InitNone ==
    /\ Quiet
    /\ reference_data = SmallSheet
    /\ catalog_sheet \in NoneCatalogs
    /\ call \in NoneQueries
    /\ returned = <<>>

SpecNone == InitNone /\ [][PriceSearch]_vars

\* The search on its own, over catalogs whose rows differ in width, size,
\* length and colour, for queries with and without a width, a size and a
\* length.
ExactRows(i) ==
    {[product_type |-> "Collar", width |-> width, size |-> size,
      length |-> length, color_type |-> "Plain", color |-> color,
      price |-> PositionPrice[i]] :
        width \in {"25", "10"}, size \in {"M", ""}, length \in {"2m", ""},
        color \in {"Red", "Blue"}}

ExactCatalogs ==
    {rows \in [1..MaxCatalogRows -> UNION {ExactRows(i) : i \in 1..MaxCatalogRows}] :
        \A i \in 1..MaxCatalogRows : rows[i] \in ExactRows(i)}

ExactQueries ==
    {[product_type |-> "Collar", width |-> width, size |-> size,
      length |-> length, color_type |-> "Plain", color |-> "Red"] :
        width \in {None, "", "25"}, size \in {None, "M"}, length \in {None, "2m"}}

InitExact ==
    /\ Quiet
    /\ reference_data = SmallSheet
    /\ catalog_sheet \in ExactCatalogs
    /\ call \in ExactQueries
    /\ returned = <<>>

SpecExact == InitExact /\ [][PriceSearch]_vars

\* ---------------------------------------------------------------------
\* Reports (lines 589-782).  A datetime is a number of hours; the date
\* cells are the strings a ledger row may hold.
DayOf == ("01.09.2026" :> 0) @@ ("07.10.2026" :> 36) @@ ("05.11.2026" :> 65) @@ ("20.11.2026" :> 80)

\* datetime.now(): 06.11.2026, 09:00
Now == (66 * 24) + 9

period_days == 30

cutoff_date == Now - (period_days * 24)

\* datetime.strptime(date, "%d.%m.%Y") raises ValueError
Unparsable(date) == date \notin DOMAIN DayOf

strptime(date) == DayOf[date] * 24

\* the list comprehension of lines 593-598: the first row whose date is
\* set and does not parse raises
FilterRaises(data) ==
    \E i \in 1..Len(data) : Truthy(data[i].date) /\ Unparsable(data[i].date)

filtered_data(data) ==
    SelectSeq(data, LAMBDA row : Truthy(row.date) /\ strptime(row.date) >= cutoff_date)

KeyIndex(stats, key) == {i \in 1..Len(stats) : stats[i].key = key}

\* the grouping loops (602-614, 668-680, 735-746): a dict in insertion order
RECURSIVE Grouped(_, _, _, _)
Grouped(stats, rows, key, amount) ==
    IF rows = <<>> THEN stats
    ELSE LET row == rows[1]
             known == KeyIndex(stats, row[key])
             entered == IF known = {}
                 THEN Append(stats, [key |-> row[key], total_sales |-> 0,
                                     total_amount |-> 0, count |-> 0])
                 ELSE stats
             i == CHOOSE j \in KeyIndex(entered, row[key]) : TRUE
             quantity == IF "quantity" \in DOMAIN row THEN row.quantity ELSE 0
         IN Grouped([entered EXCEPT
                        ![i].total_sales = @ + quantity,
                        ![i].total_amount = @ + row[amount],
                        ![i].count = @ + 1],
                    Tail(rows), key, amount)

Without(stats, i) == SubSeq(stats, 1, i - 1) \o SubSeq(stats, i + 1, Len(stats))

\* sorted(..., key=total_amount, reverse=True): stable, equal sums keep
\* their insertion order
RECURSIVE sorted(_)
sorted(stats) ==
    IF stats = <<>> THEN <<>>
    ELSE LET greatest == {i \in 1..Len(stats) :
                             \A j \in 1..Len(stats) :
                                 stats[i].total_amount >= stats[j].total_amount}
             i == CHOOSE k \in greatest : \A j \in greatest : k <= j
         IN <<stats[i]>> \o sorted(Without(stats, i))

RECURSIVE Sum(_, _)
Sum(rows, field) ==
    IF rows = <<>> THEN 0 ELSE rows[1][field] + Sum(Tail(rows), field)

NoTotals == [average |-> 0]

\* the closing lines (635-646, 704-715, 768-777): the conditional
\* expression spans the whole text, so no totals are written for count 0
Totals(stats) ==
    IF Sum(stats, "count") > 0
        THEN [count |-> Sum(stats, "count"), total_sales |-> Sum(stats, "total_sales"),
              total_amount |-> Sum(stats, "total_amount")]
    ELSE NoTotals

ReportError == [error |-> "report_error"]

\* format(x / y, ",.2f"): the quotient in hundredths, rounded to nearest
Average(total, denominator) == ((200 * total) + denominator) \div (2 * denominator)

NoLine == [average |-> 0]

GroupLine(stats, denominator) ==
    [key |-> stats.key, count |-> stats.count, total_sales |-> stats.total_sales,
     total_amount |-> stats.total_amount,
     average |-> Average(stats.total_amount, stats[denominator])]

\* the group text of the channel report (624-631): no condition, the
\* quotient is always taken
Line(stats, denominator) == GroupLine(stats, denominator)

\* the group text of the product and expense reports (690-699, 755-763):
\* the conditional expression spans the whole text, so a group with a zero
\* denominator is written as the bare average line
Line_guarded(stats, denominator) ==
    IF stats[denominator] > 0 THEN GroupLine(stats, denominator) ELSE NoLine

Lines(stats, denominator, guarded) ==
    [g \in 1..Len(stats) |->
        IF guarded THEN Line_guarded(stats[g], denominator) ELSE Line(stats[g], denominator)]

\* groups: the sorted dict; lines: the text written for each of its items
RenderReport(data, key, amount, denominator, guarded) ==
    IF FilterRaises(data) THEN ReportError
    ELSE LET stats == Grouped(<<>>, filtered_data(data), key, amount)
         IN [groups |-> sorted(stats), lines |-> Lines(sorted(stats), denominator, guarded),
             total |-> Totals(stats)]

generate_channel_report(sales_data) == RenderReport(sales_data, "channel", "total_amount", "count", FALSE)

generate_product_report(sales_data) == RenderReport(sales_data, "product_type", "total_amount", "total_sales", TRUE)

generate_expenses_report(expenses_data) == RenderReport(expenses_data, "category", "amount", "count", TRUE)

generate_report(report, data) ==
    CASE report = "report_channels" -> generate_channel_report(data)
      [] report = "report_products" -> generate_product_report(data)
      [] report = "report_expenses" -> generate_expenses_report(data)

ReportDates == {"", "n/a", "01.09.2026", "05.11.2026"}

\* The day that lies period_days before today, and a day after today.
EdgeDates == {"07.10.2026", "20.11.2026"}

Sold == {[quantity |-> 1, total_amount |-> 100], [quantity |-> 2, total_amount |-> 200]}

SaleRow(channel, product_type, sold, date) ==
    [channel |-> channel, product_type |-> product_type, quantity |-> sold.quantity,
     total_amount |-> sold.total_amount, date |-> date]

ChannelRows == {SaleRow(c, "Collar", s, d) : c \in {"Site", "Instagram"}, s \in Sold, d \in ReportDates \cup EdgeDates}

\* get_sales_data (544): a quantity cell that is not all digits reads as 0
Unsold == [quantity |-> 0, total_amount |-> 100]

ProductRows == {SaleRow("Site", t, s, d) : t \in {"Collar", "Leash"}, s \in Sold \cup {Unsold}, d \in ReportDates}

ExpenseRows ==
    {[category |-> c, amount |-> s.total_amount, date |-> d] :
        c \in {"Rent", "Post"}, s \in Sold, d \in ReportDates}

Lists(rows) == UNION {[1..n -> rows] : n \in 0..MaxSales}

ExampleSales ==
    << SaleRow("Site", "Collar", [quantity |-> 1, total_amount |-> 100], "05.11.2026"),
       SaleRow("Site", "Collar", [quantity |-> 1, total_amount |-> 50], "05.11.2026"),
       SaleRow("Instagram", "Collar", [quantity |-> 2, total_amount |-> 200], "05.11.2026") >>

ReportCalls ==
    {[report |-> "report_channels", data |-> d] : d \in Lists(ChannelRows) \cup {ExampleSales}}
        \cup {[report |-> "report_products", data |-> d] : d \in Lists(ProductRows)}
        \cup {[report |-> "report_expenses", data |-> d] : d \in Lists(ExpenseRows)}

InitReport ==
    /\ Quiet
    /\ reference_data = SmallSheet
    /\ catalog_sheet = Catalog
    /\ call \in ReportCalls
    /\ returned = <<>>

Report ==
    /\ returned = <<>>
    /\ returned' = <<generate_report(call.report, call.data)>>
    /\ UNCHANGED <<user_states, context_user_data, sales, expenses,
                   reference_data, catalog_sheet, call, prompt, last, orders,
                   strays, faults, spreadsheet, lru_cache, clock, reachable>>

SpecReport == InitReport /\ [][Report]_vars

\* Two users at once, each with a sale and an expense entry, every input
\* one that the prompt of the user offers.  An expense entry is started
\* while the expense sheet is empty and the user has none pending.
UserTexts == {"abc", "2"}

UserAddEntry(u) ==
    /\ orders < MaxUserOrders
    /\ Apply(u, add_entry(u, "none"), TRUE, "none")

UserAddExpense(u) ==
    /\ expenses = <<>>
    /\ ~Has(context_user_data[u], "expense_data")
    /\ AddExpense(u, "none")

UserSkipExpenseComment(u) == SkipExpenseComment(u, "none")

UserCallbackQuery(u) == CallbackQuery(u, "none")

UserMessageInput(u) ==
    \E text \in UserTexts :
        Apply(u, handle_message_input(u, text, "none"), OfferedText(u), "none")

NextUsers ==
    \E u \in Users :
        \/ UserAddEntry(u)
        \/ UserAddExpense(u)
        \/ UserSkipExpenseComment(u)
        \/ UserCallbackQuery(u)
        \/ UserMessageInput(u)

SpecUsers == Init /\ [][NextUsers]_vars

\* One user with sales and expense entries, one after another.
LedgerAddExpense(u) ==
    /\ ~Has(context_user_data[u], "expense_data")
    /\ AddExpense(u, "none")

NextLedger ==
    \E u \in Operators :
        \/ UserAddEntry(u)
        \/ LedgerAddExpense(u)
        \/ UserSkipExpenseComment(u)
        \/ UserCallbackQuery(u)
        \/ UserMessageInput(u)

SpecLedger == Init /\ [][NextLedger]_vars

\* Loads of reference data while time passes and the spreadsheet is edited.
SpecCache == Init /\ [][NextCache]_vars

\* clean_numeric_value applied on its own.  A str is the sequence of its
\* characters; "R" is the Cyrillic letter of the currency suffix, "nbsp"
\* the character U+00A0 and "tab" the character U+0009.
RECURSIVE replace(_, _, _)
replace(chars, old, new) ==
    IF Len(chars) < Len(old) THEN chars
    ELSE IF SubSeq(chars, 1, Len(old)) = old
        THEN new \o replace(SubSeq(chars, Len(old) + 1, Len(chars)), old, new)
    ELSE <<chars[1]>> \o replace(Tail(chars), old, new)

Whitespace == {" ", "tab"}

RECURSIVE lstrip(_)
lstrip(chars) ==
    IF chars /= <<>> /\ chars[1] \in Whitespace THEN lstrip(Tail(chars))
    ELSE chars

RECURSIVE rstrip(_)
rstrip(chars) ==
    IF chars /= <<>> /\ chars[Len(chars)] \in Whitespace
        THEN rstrip(SubSeq(chars, 1, Len(chars) - 1))
    ELSE chars

strip(chars) == rstrip(lstrip(chars))

Digit == <<"0", "1", "2", "3", "4", "5", "6", "7", "8", "9">>

\* str(n) of an int n >= 0
RECURSIVE str(_)
str(n) ==
    IF n < 10 THEN <<Digit[n + 1]>>
    ELSE str(n \div 10) \o <<Digit[(n % 10) + 1]>>

clean_numeric_value_keepsComma(value) ==
    IF value.type = "int" THEN (IF value.n = 0 THEN <<"0">> ELSE str(value.n))
    ELSE IF value.chars = <<>> THEN <<"0">>
    ELSE strip(replace(replace(replace(value.chars, <<"R", ".">>, <<>>),
                               <<" ">>, <<>>), <<"nbsp">>, <<>>))

\* lines 52-65
clean_numeric_value(value) ==
    IF value.type = "int" THEN (IF value.n = 0 THEN <<"0">> ELSE str(value.n))
    ELSE IF value.chars = <<>> THEN <<"0">>
    ELSE strip(replace(replace(replace(replace(value.chars, <<"R", ".">>, <<>>),
                                       <<" ">>, <<>>), <<"nbsp">>, <<>>),
                       <<",">>, <<".">>))

StrValue(chars) == [type |-> "str", chars |-> chars]

IntValueOf(n) == [type |-> "int", n |-> n]

Alphabet == {"1", "5", " ", "nbsp", ",", ".", "R", "tab"}

Example == <<"1", " ", "2", "3", "4", ",", "5", "0", " ", "R", ".">>

CleanInputs ==
    {StrValue(chars) : chars \in UNION {[1..n -> Alphabet] : n \in 0..MaxChars}}
        \cup {StrValue(Example)}
        \cup {IntValueOf(n) : n \in {0, 7, 1500}}

InitClean ==
    /\ Quiet
    /\ reference_data = SmallSheet
    /\ catalog_sheet = Catalog
    /\ call \in CleanInputs
    /\ returned = <<>>

Clean ==
    /\ returned = <<>>
    /\ returned' = <<clean_numeric_value(call)>>
    /\ UNCHANGED <<user_states, context_user_data, sales, expenses,
                   reference_data, catalog_sheet, call, prompt, last, orders,
                   strays, faults, spreadsheet, lru_cache, clock, reachable>>

SpecClean == InitClean /\ [][Clean]_vars

\* The sale wizard and the expense entry together, every input offered.
OfferedAddExpense(u) == AddExpense(u, "faults")

OfferedSkipExpenseComment(u) == SkipExpenseComment(u, "faults")

NextBoth ==
    \E u \in Operators :
        \/ OfferedAddEntry(u)
        \/ OfferedAddExpense(u)
        \/ OfferedSkipExpenseComment(u)
        \/ OfferedCallbackQuery(u)
        \/ OfferedMessageInput(u)

SpecBoth == Init /\ [][NextBoth]_vars

----
(* The wizard's steps, read off the draft *)

HasDraft(u) == u \in DOMAIN user_states

\* The columns the wizard fills for a product type, in the order it asks.
CanonicalOrder(product_type) ==
    LET product_info == ProductInfo(product_type)
        optional ==
            IF product_info = <<>> \/ product_type \in SimpleTypes THEN <<>>
            ELSE (IF product_info[1].has_width THEN <<"width">> ELSE <<>>)
                 \o (IF product_info[1].has_size THEN <<"size">>
                     ELSE IF product_info[1].has_length THEN <<"length">>
                     ELSE <<>>)
    IN  <<"channel", "product_type">> \o optional
            \o <<"color_type", "color", "payment_method">>

\* The non-null columns of the row are the first n of its canonical order.
IsPrefix(row) ==
    LET order == CanonicalOrder(row.product_type) IN
    \E n \in 0..Len(order) :
        \A c \in Columns :
            row[c] /= None <=> \E i \in 1..n : order[i] = c

\* The first column of the canonical order still unset ("quantity" if none).
CurrentStep(u) ==
    IF ~HasDraft(u) THEN "channel"
    ELSE LET row == user_states[u]
             order == CanonicalOrder(row.product_type)
             unset == SelectSeq(order, LAMBDA c : ~Truthy(row[c]))
         IN  IF unset = <<>> THEN "quantity" ELSE unset[1]

AwaitingQuantity(u) == HasDraft(u) /\ Truthy(user_states[u].payment_method)

\* The column a selection button is meant for.
Prefixes ==
    [type_ |-> "product_type", width_ |-> "width", size_ |-> "size",
     length_ |-> "length", colortype_ |-> "color_type", color_ |-> "color",
     payment_ |-> "payment_method"]

IsSelection(callback_data) ==
    \/ callback_data[1] \in DOMAIN Prefixes
    \/ callback_data \in sales_channels_keyboard \ {CancelButton}

KindOf(callback_data) ==
    IF callback_data[1] \in DOMAIN Prefixes
        THEN Prefixes[callback_data[1]] ELSE "channel"

Position ==
    [channel |-> 1, product_type |-> 2, width |-> 3, size |-> 4, length |-> 4,
     color_type |-> 5, color |-> 6, payment_method |-> 7, quantity |-> 8]

\* The buttons of the prompt of a step, for the draft as it is.
OptionsOf(u, step) ==
    CASE step = "channel"        -> sales_channels_keyboard
      [] step = "product_type"   -> product_types_keyboard
      [] step = "width"          -> widths_keyboard
      [] step = "size"           -> sizes_keyboard(user_states[u].width)
      [] step = "length"         -> lengths_keyboard(user_states[u].width)
      [] step = "color_type"     -> color_types_keyboard
      [] step = "color"          -> colors_keyboard(user_states[u].color_type)
      [] step = "payment_method" -> payment_methods_keyboard
      [] OTHER                   -> {}

----------------------------------------------------------------------------
(* C1: when every input is one the most recently rendered prompt offers,
   the non-null fields of every draft are a prefix of the canonical order
   channel, productType, [width], [size or length], colorType, color,
   paymentMethod of the draft's product type. *)
PrefixInvariant ==
    \A u \in Users : HasDraft(u) => IsPrefix(user_states[u])

\* A draft filled up to the payment method, width and size or length included.
PrefixInvariant_witness ==
    \E u \in Users :
        /\ HasDraft(u)
        /\ user_states[u].payment_method /= None
        /\ user_states[u].width /= None
        /\ user_states[u].size /= None \/ user_states[u].length /= None

(* C2: on a draft whose channel is set, a selection whose step is later
   than the current step of the draft is rejected: handling it leaves the
   table of drafts unchanged. *)
OutOfSequenceRejected ==
    \A u \in Operators, callback_data \in Buttons :
        (/\ IsSelection(callback_data)
         /\ HasDraft(u)
         /\ Truthy(user_states[u].channel)
         /\ Position[KindOf(callback_data)] > Position[CurrentStep(u)])
        => handle_callback_query(u, callback_data, "none").us = user_states

(* C3: re-sending a selection of a kind whose field is already set changes
   no field of the draft and appends no row to the sales sheet, whether or
   not an external call raises. *)
ReplayRejected ==
    \A u \in Operators, callback_data \in Buttons, fail \in CallbackCalls :
        (/\ IsSelection(callback_data)
         /\ HasDraft(u)
         /\ Truthy(user_states[u][KindOf(callback_data)]))
        => LET r == handle_callback_query(u, callback_data, fail)
           IN  r.us = user_states /\ r.sl = sales

\* A payment button has just been ignored on a draft whose payment
\* method is set.
ReplayRejected_witness ==
    \E u \in Operators :
        /\ last = [user |-> u, event |-> "ignored", error |-> "none"]
        /\ AwaitingQuantity(u)
        /\ prompt[u].kind = "quantity_prompt"

(* C4: once an order is started, at every selection step a payload that
   is not one of the options the reference data supplies for that step is
   rejected and the draft is left unchanged; while the channel is unset
   this holds of every payload that is not a channel. *)
InvalidChoiceRejected ==
    \A u \in Operators, callback_data \in Buttons :
        (/\ HasDraft(u) \/ prompt[u].kind = "channels"
         /\ ~StartsWith(callback_data, "expense_cat_")
         /\ Join(callback_data) \notin ReportButtons \cup {"cancel", "manual_price"}
         /\ CurrentStep(u) = "channel" \/ KindOf(callback_data) = CurrentStep(u)
         /\ callback_data \notin OptionsOf(u, CurrentStep(u)))
        => handle_callback_query(u, callback_data, "none").us = user_states

(* C5: a positive quantity accepted while the draft has its payment method,
   no external call raising, appends exactly one row, the 12-tuple built
   from the draft with unset optional attributes as empty strings, a
   positive quantity and totalAmount = quantity * unitPrice, and leaves the
   user without a draft. *)
RowOfDraft(row, draft) ==
    /\ row[1] = draft.channel
    /\ row[2] = draft.product_type
    /\ row[3] = OrEmpty(draft.width)
    /\ row[4] = OrEmpty(draft.size)
    /\ row[5] = OrEmpty(draft.length)
    /\ row[6] = OrEmpty(draft.color_type)
    /\ row[7] = draft.color
    /\ row[8] > 0
    /\ row[10] = row[8] * row[9]
    /\ row[11] = draft.payment_method
    /\ row[12] = Today

PositiveQuantities == {t \in DOMAIN IntValue : IntValue[t] > 0}

FinalizationWritesDraft ==
    \A u \in Operators, text \in PositiveQuantities :
        LET r == handle_message_input(u, text, "none")
        IN  (AwaitingQuantity(u) /\ r.ev = "sale_added")
            => /\ Len(r.sl) = Len(sales) + 1
               /\ SubSeq(r.sl, 1, Len(sales)) = sales
               /\ RowOfDraft(r.sl[Len(r.sl)], user_states[u])
               /\ u \notin DOMAIN r.us

(* C6: the text that follows a successful finalization of the same user
   appends no row to the sales sheet: no new order can have reached the
   quantity prompt in between. *)
NoRowRightAfterFinalization ==
    [][\A u \in Operators :
        (/\ last = [user |-> u, event |-> "sale_added", error |-> "none"]
         /\ last'.user = u)
        => sales' = sales]_vars

(* C7 as stated: a failed append leaves the sheet, the drafts and the
   context as they were, and the same quantity sent again with the sheet
   reachable appends the row and deletes the draft, whether or not the
   delete on the draft table raises. *)
RetryFinalizes(deleteMayFail) ==
    \A u \in Operators :
        last = [user |-> u, event |-> "write_error", error |-> "append"]
        => \A text \in PositiveQuantities,
              fail \in (IF deleteMayFail THEN {"none", "write"} ELSE {"none"}) :
              LET ctx == context_user_data[u]
                  r == handle_message_input(u, text, fail)
              IN  /\ r.ev = "sale_added"
                  /\ r.sl = Append(sales,
                                   record_data(ctx["user_data"], IntValue[text],
                                               PriceToUse(ctx)))
                  /\ u \notin DOMAIN r.us

FailedAppendKeepsAll ==
    (last'.event = "write_error" /\ last'.error = "append")
        => /\ sales' = sales
           /\ user_states' = user_states
           /\ context_user_data' = context_user_data

AppendFailureRetry_asStated ==
    [][FailedAppendKeepsAll]_vars /\ []RetryFinalizes(TRUE)

(* C7 as amended: a failed append leaves the sheet, the drafts and the
   context as they were, and the same quantity sent again with the sheet
   reachable appends the row built from the retained data; the draft is
   deleted when the delete on the draft table succeeds. *)
AppendFailureRetry ==
    [][FailedAppendKeepsAll]_vars /\ []RetryFinalizes(FALSE)

\* The append has just failed for a user whose draft awaits the quantity.
AppendFailureRetry_witness ==
    \E u \in Operators :
        /\ last = [user |-> u, event |-> "write_error", error |-> "append"]
        /\ AwaitingQuantity(u)
        /\ Has(context_user_data[u], "user_data")

(* C8: while the draft awaits the quantity, a text that is not an integer
   or is an integer <= 0 appends no row and leaves the draft and the price
   that the sale will use unchanged. *)
BadQuantityChangesNothing ==
    \A u \in Operators, text \in Texts :
        (/\ AwaitingQuantity(u)
         /\ text \notin DOMAIN IntValue \/ IntValue[text] <= 0)
        => LET r == handle_message_input(u, text, "none")
           IN  /\ r.sl = sales
               /\ r.us = user_states
               /\ PriceToUse(r.ctx) = PriceToUse(context_user_data[u])

(* C9: after a cancel whose delete on the draft table succeeded, the user
   has no draft. *)
CancelDeletesDraft ==
    \A u \in Users :
        last = [user |-> u, event |-> "cancelled", error |-> "none"]
        => ~HasDraft(u)

\* A cancel has just been served for a user who had reached the quantity
\* prompt of an order that was never written.
CancelDeletesDraft_witness ==
    \E u \in Operators :
        /\ last = [user |-> u, event |-> "cancelled", error |-> "none"]
        /\ Has(context_user_data[u], "price")
        /\ sales = <<>>
        /\ faults = 0

(* C10: after a cancel nothing of the cancelled flow survives: a text sent
   next appends no row to the sales sheet and none to the expense sheet, and
   stores nothing in the context. *)
CancelLeavesNothing ==
    \A u \in Operators :
        last = [user |-> u, event |-> "cancelled", error |-> "none"]
        => \A text \in Texts :
              LET r == handle_message_input(u, text, "none")
              IN  /\ r.sl = sales
                  /\ r.ex = expenses
                  /\ r.ctx = context_user_data[u]

(* C11 as stated: /add issued in any state leaves the user without a draft
   and with the channel prompt, whether or not the delete on the draft table
   raises, and the channel pressed next is recorded as the only field of a
   new draft, the product-type prompt following. *)
OnlyChannel(channel) ==
    [c \in Columns |-> IF c = "channel" THEN channel ELSE None]

FreshStart(deleteMayFail) ==
    \A u \in Operators :
        /\ \A fail \in (IF deleteMayFail THEN CommandCalls ELSE {"none"}) :
              LET r == add_entry(u, fail)
              IN  /\ u \notin DOMAIN r.us
                  /\ r.pr = Message("channels", sales_channels_keyboard)
        /\ last = [user |-> u, event |-> "channels", error |-> "none"]
           => \A callback_data \in sales_channels_keyboard \ {CancelButton} :
                 LET r == handle_callback_query(u, callback_data, "none")
                 IN  /\ r.us = Put(user_states, u, OnlyChannel(Join(callback_data)))
                     /\ r.pr = Message("types", product_types_keyboard)

FreshStart_asStated == FreshStart(TRUE)

(* C11 as amended: /add issued in any state, its delete on the draft table
   succeeding, leaves the user without a draft and with the channel prompt,
   and the channel pressed next is recorded as the only field of a new
   draft, the product-type prompt following. *)
FreshStartWhenDeleted == FreshStart(FALSE)

\* /add has just been served, after an input that no prompt had offered.
FreshStartWhenDeleted_witness ==
    \E u \in Operators :
        /\ last = [user |-> u, event |-> "channels", error |-> "none"]
        /\ strays = 1
        /\ ~HasDraft(u)
        /\ prompt[u] = Message("channels", sales_channels_keyboard)

(* C12: the unit price of the row a quantity appends, no price having been
   typed by hand, is what the search of the catalog returns for the draft's
   attributes on the catalog as it is when the quantity is sent. *)
PriceResolvedAtFinalization ==
    \A u \in Operators, text \in PositiveQuantities :
        LET r == handle_message_input(u, text, "none")
        IN  (/\ AwaitingQuantity(u)
             /\ ~Has(context_user_data[u], "manual_price")
             /\ r.ev = "sale_added")
            => r.sl[Len(r.sl)][9] = PriceFor(user_states[u], TRUE)

(* C13: once the product type of a draft is one of the simple types, the
   colour type of the draft is set without having been asked and no width,
   size, length or colour-type prompt is shown: the prompt that follows the
   product type is the colour prompt. *)
SimpleTypeSkipsToColor ==
    \A u \in Operators :
        (HasDraft(u) /\ user_states[u].product_type \in SimpleTypes)
        => /\ Truthy(user_states[u].color_type)
           /\ prompt[u].kind \notin {"widths", "sizes", "lengths", "colortypes"}

(* C14: for a product type with has_width, once the width of the draft is
   one whose lists of sizes and of lengths are both empty, no size prompt
   and no length prompt is rendered: the prompt that follows the width is
   the colour-type prompt, whatever has_size and has_length are. *)
EmptyWidthSkipsToColorType ==
    \A u \in Operators :
        (/\ HasDraft(u)
         /\ ProductInfo(user_states[u].product_type) /= <<>>
         /\ ProductInfo(user_states[u].product_type)[1].has_width
         /\ WidthData(user_states[u].width) /= <<>>
         /\ WidthData(user_states[u].width)[1].available_sizes = <<>>
         /\ WidthData(user_states[u].width)[1].available_lengths = <<>>)
        => prompt[u].kind \notin {"sizes", "lengths"}

(* C15: the search returns the price of the first row, in the order of the
   sheet, that matches on every attribute (an empty width, size or length
   of the query matching any) and has a non-empty price that converts; if
   there is none, of the first such row matching on product type, colour
   type and colour; if none, on product type and colour; if none, 0.  Rows
   whose price is empty or does not convert are passed over. *)
Converts(row) ==
    Cells(row) >= MinCells /\ row.price /= "" /\ row.price \in DOMAIN CellValue

Same(a, b) == normalize(a) = normalize(b)

Optional(q, a) == normalize(q) = "" \/ Same(q, a)

TierMatches(tier, q) ==
    {i \in 1..Len(catalog_sheet) :
        LET row == catalog_sheet[i] IN
        /\ Converts(row)
        /\ Same(q.product_type, row.product_type)
        /\ Same(q.color, row.color)
        /\ tier \in {"exact", "A"} => Same(q.color_type, row.color_type)
        /\ tier = "exact" => /\ Optional(q.width, row.width)
                             /\ Optional(q.size, row.size)
                             /\ Optional(q.length, row.length)}

First(S) == CHOOSE i \in S : \A j \in S : i <= j

TierPrice(q) ==
    LET tiers == SelectSeq(<<"exact", "A", "B">>,
                           LAMBDA t : TierMatches(t, q) /= {})
    IN  IF tiers = <<>> THEN 0
        ELSE CellValue[catalog_sheet[First(TierMatches(tiers[1], q))].price]

TierOrder ==
    returned /= <<>> => returned[1] = TierPrice(call)

\* The search has answered from the second row, by type, colour type and
\* colour, after passing over a first row that matches but has no price.
TierOrder_witness ==
    /\ returned = <<CellValue[PositionPrice[2]]>>
    /\ TierMatches("exact", call) = {}
    /\ TierMatches("A", call) = {2}
    /\ catalog_sheet[1].price = ""
    /\ Same(call.color, catalog_sheet[1].color)

(* C16: the search returns the same price for a query and for the query
   in which every attribute that is the string "None" is replaced by the
   empty string, or by an unset value, whichever attributes those are. *)
Emptied(q, empty) == [a \in DOMAIN q |-> IF q[a] = "None" THEN empty ELSE q[a]]

NoneIsEmpty ==
    returned /= <<>>
        => /\ returned[1] = PriceFor(Emptied(call, ""), TRUE)
           /\ returned[1] = PriceFor(Emptied(call, None), TRUE)

(* C17: clean_numeric_value removes the currency suffix and the spaces and
   non-breaking spaces and turns every comma into a point, keeping the
   digits in their order; it returns "1234.50" for "1 234,50 R.", "0" for
   the empty string and "1500" for the number 1500. *)
Only(chars, keep) == SelectSeq(chars, LAMBDA c : c \in keep)

Count(chars, c) == Len(Only(chars, {c}))

Suffixes(chars) ==
    Cardinality({i \in 1..(Len(chars) - 1) : chars[i] = "R" /\ chars[i + 1] = "."})

NumericCleaning ==
    returned /= <<>> =>
        LET cleaned == returned[1] IN
        /\ call = StrValue(Example)
            => cleaned = <<"1", "2", "3", "4", ".", "5", "0">>
        /\ call = StrValue(<<>>) => cleaned = <<"0">>
        /\ call = IntValueOf(1500) => cleaned = <<"1", "5", "0", "0">>
        /\ (call.type = "str" /\ call.chars /= <<>>)
            => /\ Only(cleaned, {" ", "nbsp", ","}) = <<>>
               /\ Only(cleaned, Range(Digit)) = Only(call.chars, Range(Digit))
               /\ Count(cleaned, ".")
                    = Count(call.chars, ".") + Count(call.chars, ",")
                        - Suffixes(call.chars)

\* The example of the claim has been cleaned.
NumericCleaning_witness ==
    /\ call = StrValue(Example)
    /\ returned = <<<<"1", "2", "3", "4", ".", "5", "0">>>>

(* C18: for any list of ledger rows that all lie in the window, the channel
   report has one group per distinct channel, with the number of the
   channel's rows as count and the sum of their amounts as amount, the
   groups in descending order of amount, and a grand total whose count and
   amount are the sums over the groups. *)
InWindow(row) ==
    /\ Truthy(row.date)
    /\ ~Unparsable(row.date)
    /\ cutoff_date <= strptime(row.date)
    /\ strptime(row.date) <= Now

Of(rows, key, value) == SelectSeq(rows, LAMBDA row : row[key] = value)

GroupsOf(report, rows, key, amount) ==
    /\ report /= ReportError
    /\ Len(report.groups) = Cardinality({rows[i][key] : i \in 1..Len(rows)})
    /\ \A i \in 1..Len(rows) : \E g \in 1..Len(report.groups) : report.groups[g].key = rows[i][key]
    /\ \A g \in 1..Len(report.groups) :
        /\ report.groups[g].count = Len(Of(rows, key, report.groups[g].key))
        /\ report.groups[g].total_amount = Sum(Of(rows, key, report.groups[g].key), amount)
    /\ \A g \in 1..(Len(report.groups) - 1) :
        report.groups[g].total_amount >= report.groups[g + 1].total_amount

GrandTotalOf(report) ==
    /\ report /= ReportError
    /\ report.total /= NoTotals
    /\ report.total.count = Sum(report.groups, "count")
    /\ report.total.total_amount = Sum(report.groups, "total_amount")

ReportGrouping ==
    (/\ returned /= <<>>
     /\ call.report = "report_channels"
     /\ \A i \in 1..Len(call.data) : InWindow(call.data[i]))
        => /\ GroupsOf(returned[1], call.data, "channel", "total_amount")
           /\ GrandTotalOf(returned[1])

(* C19: in each of the three reports a row whose date is missing or does
   not parse is left out, the other rows are aggregated as if it were not
   there, and the report is not an error. *)
Dated(rows) ==
    SelectSeq(rows, LAMBDA row : Truthy(row.date) /\ ~Unparsable(row.date))

ReportDateRobustness ==
    returned /= <<>>
        => /\ returned[1] /= ReportError
           /\ returned[1] = generate_report(call.report, Dated(call.data))

(* C20: reference data that a load serves was fetched at most
   CACHE_TTL_SECONDS ago, and a load made after that time has passed
   returns what the spreadsheet holds now. *)
CacheTTL ==
    \A f \in CachedFunctions :
        /\ Age(f) <= CACHE_TTL_SECONDS
        /\ Age(f) > CACHE_TTL_SECONDS => Served(f) = Fetched(f)

(* C21: the clear-cache command empties the cache of every loader of
   reference data - channels, payment methods, expense categories and the
   attribute schema - so that nothing cached before it is served after it. *)
RefreshIsWhole ==
    [][clear_cache => \A f \in CachedFunctions : lru_cache'[f] = <<>>]_vars

(* C22: while the spreadsheet is reachable and no refresh is needed, a
   load returns the spreadsheet's data, never the empty or fallback result
   of a load made during an outage. *)
OutageNotRetained ==
    reachable => \A f \in CachedFunctions : Served(f).revision /= Unavailable

(* C23: whatever button or text arrives in whatever state, the handling ends
   with a reply and no exception leaves the handler. *)
NoErrorEscapes ==
    \A u \in Operators :
        /\ \A callback_data \in Buttons :
            handle_callback_query(u, callback_data, "none").ev /= "exception"
        /\ \A text \in Texts :
            handle_message_input(u, text, "none").ev /= "exception"

(* C24: whatever command, button or text a user sends in whatever state,
   and whichever external call raises, the handling leaves each row of the
   sales sheet and of the expense sheet where it was and as it was; the
   sheets change only by rows added at the end. *)
Extends(before, after) ==
    /\ Len(before) <= Len(after)
    /\ SubSeq(after, 1, Len(before)) = before

Appends(r) == Extends(sales, r.sl) /\ Extends(expenses, r.ex)

LedgerAppendOnly ==
    \A u \in Users :
        /\ \A fail \in CommandCalls :
            Appends(add_entry(u, fail)) /\ Appends(add_expense(u, fail))
        /\ \A callback_data \in Buttons, fail \in CallbackCalls :
            Appends(handle_callback_query(u, callback_data, fail))
        /\ \A text \in Texts, fail \in MessageCalls :
            /\ Appends(handle_message_input(u, text, fail))
            /\ Appends(skip_expense_comment(u, fail))

\* A second sale has been written below a different first one, beside an
\* expense.
LedgerAppendOnly_witness ==
    /\ Len(sales) = 2
    /\ sales[1] /= sales[2]
    /\ expenses /= <<>>
    /\ last.event = "sale_added"

(* C25: a step taken by one user leaves the draft, the pending price, the
   manual-price mode, the pending expense entry and the prompt of every
   other user as they were, and a sales row written by that step carries
   the acting user's own draft and the acting user's own pending price. *)
DraftOf(table, u) == IF u \in DOMAIN table THEN <<table[u]>> ELSE <<>>

Untouched(u) ==
    /\ DraftOf(user_states', u) = DraftOf(user_states, u)
    /\ context_user_data'[u] = context_user_data[u]
    /\ prompt'[u] = prompt[u]

OwnRow(u) ==
    Len(sales') > Len(sales)
        => /\ HasDraft(u)
           /\ RowOfDraft(sales'[Len(sales')], user_states[u])
           /\ sales'[Len(sales')][9] = PriceToUse(context_user_data[u])

PerUserIsolation ==
    [][\A u \in Users :
        IF last'.user = u THEN OwnRow(u) ELSE Untouched(u)]_vars

\* The second user has finalized at the catalog price while the first has
\* a draft and a manual price pending.
PerUserIsolation_witness ==
    /\ last.user = "u2"
    /\ last.event = "sale_added"
    /\ HasDraft("u1")
    /\ Has(context_user_data["u1"], "manual_price")
    /\ PriceToUse(context_user_data["u1"]) /= sales[Len(sales)][9]

(* C26: two users whose persisted drafts are equal and await the quantity
   get the same outcome for the same quantity text, whatever the memory of
   the process holds for each of them: the same row is appended. *)
DraftDetermines ==
    \A u, v \in Users :
        (/\ AwaitingQuantity(u)
         /\ AwaitingQuantity(v)
         /\ user_states[u] = user_states[v])
            => \A text \in PositiveQuantities :
                handle_message_input(u, text, "none").sl
                    = handle_message_input(v, text, "none").sl

(* C27: when a selection is accepted, the next prompt follows the flags of
   the product type: after a product type that is not a simple one, width
   if has_width, otherwise size if has_size, otherwise length if
   has_length, otherwise colour type; after a width, size if has_size,
   otherwise length if has_length, otherwise colour type; after a size or
   a length, colour type; then colour, payment method and quantity. *)
KindAfterWidth(p) ==
    IF p.has_size THEN "sizes" ELSE IF p.has_length THEN "lengths" ELSE "colortypes"

KindAfterType(p) == IF p.has_width THEN "widths" ELSE KindAfterWidth(p)

\* The step has set the column of the draft of u and nothing raised.
Accepted(u, column) ==
    /\ last'.user = u
    /\ last'.error = "none"
    /\ HasDraft(u)
    /\ u \in DOMAIN user_states'
    /\ user_states[u][column] = None
    /\ user_states'[u][column] /= None

FlagsOf(u) == ProductInfo(user_states'[u].product_type)[1]

FlagDrivenNext ==
    [][\A u \in Users :
        /\ (Accepted(u, "product_type") /\ user_states'[u].product_type \notin SimpleTypes)
            => prompt'[u].kind = KindAfterType(FlagsOf(u))
        /\ Accepted(u, "width") => prompt'[u].kind = KindAfterWidth(FlagsOf(u))
        /\ Accepted(u, "size") => prompt'[u].kind = "colortypes"
        /\ Accepted(u, "length") => prompt'[u].kind = "colortypes"
        /\ Accepted(u, "color_type") => prompt'[u].kind = "colors"
        /\ Accepted(u, "color") => prompt'[u].kind = "payments"
        /\ Accepted(u, "payment_method") => prompt'[u].kind = "quantity_prompt"]_vars

\* A width has been accepted for a product type with a length and no
\* size, and the length is asked.
FlagDrivenNext_witness ==
    \E u \in Users :
        /\ HasDraft(u)
        /\ user_states[u].width /= None
        /\ user_states[u].length = None
        /\ ~ProductInfo(user_states[u].product_type)[1].has_size
        /\ last.event = "lengths"
        /\ prompt[u].kind = "lengths"

(* C28: the search answers with the price of the first row of the sheet
   whose product type, colour type and colour equal the query's and whose
   width, size and length each equal the query's value or face an empty
   value of the query; rows before it that differ in a width, size or
   length the query gives are passed over, and a query without width, size
   and length takes the first row of its product type, colour type and
   colour whatever that row's width, size and length. *)
Given(value) == value /= None /\ value /= ""

ExactMatch(q, row) ==
    /\ row.product_type = q.product_type
    /\ row.color_type = q.color_type
    /\ row.color = q.color
    /\ \A a \in {"width", "size", "length"} : Given(q[a]) => row[a] = q[a]

ExactMatches(q) ==
    {i \in 1..Len(catalog_sheet) : ExactMatch(q, catalog_sheet[i])}

ExactOptionalMatch ==
    (returned /= <<>> /\ ExactMatches(call) /= {})
        => returned[1] = PriceOf(catalog_sheet[First(ExactMatches(call))])

\* A query without width, size and length has been answered from the
\* second row, which has all three, the first being of another colour.
ExactOptionalMatch_witness ==
    /\ returned = <<CellValue[PositionPrice[2]]>>
    /\ ~Given(call.width) /\ ~Given(call.size) /\ ~Given(call.length)
    /\ catalog_sheet[1].color /= call.color
    /\ catalog_sheet[2].width = "10"
    /\ catalog_sheet[2].size = "M"
    /\ catalog_sheet[2].length = "2m"

(* C29: in every report two neighbouring groups with equal summed amounts
   stand in ascending lexical order of their keys, in whatever order their
   rows stand in the sheet. *)
LexicalRank == ("Collar" :> 1) @@ ("Instagram" :> 2) @@ ("Leash" :> 3) @@ ("Post" :> 4) @@ ("Rent" :> 5) @@ ("Site" :> 6)

ReportTieBreak ==
    (returned /= <<>> /\ returned[1] /= ReportError)
        => \A g \in 1..(Len(returned[1].groups) - 1) :
            LET upper == returned[1].groups[g]
                lower == returned[1].groups[g + 1]
            IN  upper.total_amount = lower.total_amount
                    => LexicalRank[upper.key] < LexicalRank[lower.key]

(* C30: a report aggregates exactly the rows dated from period_days days
   before today up to today: the row dated exactly period_days days before
   today is counted and a row dated after today is not. *)
TodayDay == Now \div 24

WithinPeriod(row) ==
    /\ Truthy(row.date)
    /\ ~Unparsable(row.date)
    /\ TodayDay - period_days <= DayOf[row.date]
    /\ DayOf[row.date] <= TodayDay

ReportWindow ==
    (returned /= <<>> /\ ~FilterRaises(call.data))
        => returned[1] = generate_report(call.report, SelectSeq(call.data, WithinPeriod))


\* C31: no report divides by zero; a group whose denominator is zero is
\* written with average 0 together with its key, count, summed quantity and
\* summed amount, and a report over an empty window still ends with totals of
\* count 0 and amount 0.
ZeroDenominator(report) ==
    IF report = "report_products" THEN "total_sales" ELSE "count"

ZeroDenominatorGuard ==
    (returned /= <<>> /\ returned[1] /= ReportError)
        => /\ \A g \in 1..Len(returned[1].groups) :
                returned[1].groups[g][ZeroDenominator(call.report)] = 0
                    => returned[1].lines[g] =
                           [key |-> returned[1].groups[g].key,
                            count |-> returned[1].groups[g].count,
                            total_sales |-> returned[1].groups[g].total_sales,
                            total_amount |-> returned[1].groups[g].total_amount,
                            average |-> 0]
           /\ returned[1].groups = <<>>
                => /\ returned[1].total /= NoTotals
                   /\ returned[1].total.count = 0
                   /\ returned[1].total.total_amount = 0


\* The sheet of reference data as get_reference_data parses it (299-358).
\* A cell is a sequence of characters; the Cyrillic literals are written
\* with Latin letters.
PRODUCT_TYPES_HEADER == <<"T", "Y", "P", "E", "S">>

WIDTHS_HEADER == <<"W", "I", "D", "T", "H", "S">>

COLOR_TYPES_HEADER == <<"K", "I", "N", "D", "S">>

COLORS_HEADER == <<"C", "O", "L", "O", "R", "S">>

Sections == <<"product_types", "widths", "color_types", "colors">>

Header == <<PRODUCT_TYPES_HEADER, WIDTHS_HEADER, COLOR_TYPES_HEADER, COLORS_HEADER>>

\* the first cell of the row of column names of each section
ColumnLabel ==
    << <<"T", "y", "p", "e">>, <<"W", "i", "d", "t", "h">>, <<"K", "i", "n", "d">>,
       <<"C", "o", "l", "o", "r">> >>

\* len(row) >= 4, >= 3, >= 2, and row[0] for the colours
MinColumns == <<4, 3, 2, 1>>

Yes == <<"d", "a">>

\* "part in chars"
Contains(chars, part) ==
    \E i \in 0..(Len(chars) - Len(part)) : SubSeq(chars, i + 1, i + Len(part)) = part

LowerCase == ("D" :> "d") @@ ("A" :> "a")

lower(chars) ==
    [i \in 1..Len(chars) |->
        IF chars[i] \in DOMAIN LowerCase THEN LowerCase[chars[i]] ELSE chars[i]]

\* chars.split(sep)
RECURSIVE split(_, _)
split(chars, sep) ==
    LET at == {i \in 1..Len(chars) : chars[i] = sep}
    IN IF at = {} THEN <<chars>>
       ELSE LET i == CHOOSE k \in at : \A j \in at : k <= j
            IN <<SubSeq(chars, 1, i - 1)>> \o split(SubSeq(chars, i + 1, Len(chars)), sep)

\* [s.strip() for s in cell.split(",")] if cell else []
stripped_list(cell) ==
    IF cell = <<>> THEN <<>>
    ELSE [i \in 1..Len(split(cell, ",")) |-> strip(split(cell, ",")[i])]

any(row) == \E i \in 1..Len(row) : row[i] /= <<>>

\* the if/elif chain of 306-317: the first marker found in row[0], 0 if none
SectionStarted(row) ==
    LET found == {i \in 1..Len(Header) : Contains(row[1], Header[i])}
    IN IF found = {} THEN 0 ELSE CHOOSE i \in found : \A j \in found : i <= j

\* "if row[0]" alone: the row of column names is taken as data
IsData_keepsLabel(row, section) == row[1] /= <<>>

\* "if row[0] and row[0] != <column name>"
IsData(row, section) == row[1] /= <<>> /\ row[1] /= ColumnLabel[section]

Entry(row, section) ==
    CASE section = 1 ->
            [type |-> strip(row[1]), has_width |-> lower(strip(row[2])) = Yes,
             has_size |-> lower(strip(row[3])) = Yes,
             has_length |-> lower(strip(row[4])) = Yes]
      [] section = 2 ->
            [width |-> strip(row[1]), available_sizes |-> stripped_list(row[2]),
             available_lengths |-> stripped_list(row[3])]
      [] section = 3 -> [type |-> strip(row[1]), available_colors |-> stripped_list(row[2])]
      [] section = 4 -> strip(row[1])

\* the loop over all_data; current_section is 0 for None
RECURSIVE ParseRows(_, _, _)
ParseRows(all_data, current_section, parsed) ==
    IF all_data = <<>> THEN parsed
    ELSE LET row == all_data[1]
             rest == Tail(all_data)
         IN IF ~any(row) THEN ParseRows(rest, current_section, parsed)
            ELSE IF SectionStarted(row) /= 0
                THEN ParseRows(rest, SectionStarted(row), parsed)
            ELSE IF current_section /= 0 /\ Len(row) >= MinColumns[current_section]
                    /\ IsData(row, current_section)
                THEN ParseRows(rest, current_section,
                               [parsed EXCEPT ![current_section] =
                                   Append(@, Entry(row, current_section))])
            ELSE ParseRows(rest, current_section, parsed)

get_reference_data(all_data) == ParseRows(all_data, 0, <<<<>>, <<>>, <<>>, <<>>>>)

MaxSheetRows == 4

Blank == <<>>

SheetRows ==
    { <<PRODUCT_TYPES_HEADER \o <<":">>, Blank, Blank, Blank>>,
      <<WIDTHS_HEADER, Blank, Blank>>,
      <<COLOR_TYPES_HEADER, Blank>>,
      <<COLORS_HEADER>>,
      <<ColumnLabel[1], <<"W">>, <<"S">>, <<"L">>>>,
      <<<<" ", "T", "a", "g">>, <<"D", "a">>, <<" ", "d", "a", " ">>, <<"n", "o">>>>,
      <<<<"T", "o", "y">>, <<"d", "a">>>>,
      <<Blank, Blank, Blank, Blank>>,
      <<Blank, Yes, Yes, Yes>>,
      <<<<"2", "5">>, <<"S", ",", " ", "M">>, Blank>> }

Sheets == UNION {[1..n -> SheetRows] : n \in 0..MaxSheetRows}

InitReference ==
    /\ Quiet
    /\ reference_data = SmallSheet
    /\ catalog_sheet = Catalog
    /\ call \in Sheets
    /\ returned = <<>>

LoadReference ==
    /\ returned = <<>>
    /\ returned' = <<get_reference_data(call)>>
    /\ UNCHANGED <<user_states, context_user_data, sales, expenses,
                   reference_data, catalog_sheet, call, prompt, last, orders,
                   strays, faults, spreadsheet, lru_cache, clock, reachable>>

SpecReference == InitReference /\ [][LoadReference]_vars

\* C32: the parsed schema holds, per section and in the order of the sheet,
\* exactly one entry for each row of the section that is not the section's
\* row of column names and has the section's number of columns; rows with
\* too few columns and repeated header rows give no entry and do not stop
\* the scan; a flag of a product type is true iff its cell, trimmed and in
\* lower case, is the affirmative literal.
IsHeaderRow(row) == row[1] /= <<>> /\ SectionStarted(row) /= 0

\* the section a row lies in: that of the last header row above it
SectionOfRow(all_data, i) ==
    LET above == {j \in 1..(i - 1) : IsHeaderRow(all_data[j])}
    IN IF above = {} THEN 0
       ELSE SectionStarted(all_data[CHOOSE j \in above : \A k \in above : k <= j])

RowsOfSection_asStated(all_data, section) ==
    {i \in 1..Len(all_data) :
        /\ SectionOfRow(all_data, i) = section
        /\ ~IsHeaderRow(all_data[i])
        /\ all_data[i][1] /= ColumnLabel[section]
        /\ Len(all_data[i]) >= MinColumns[section]}

RowsOfSection(all_data, section) ==
    {i \in RowsOfSection_asStated(all_data, section) : all_data[i][1] /= <<>>}

Nth(indices, k) == CHOOSE i \in indices : Cardinality({j \in indices : j < i}) = k - 1

NameOf(entry, section) ==
    CASE section = 1 -> entry.type
      [] section = 2 -> entry.width
      [] section = 3 -> entry.type
      [] section = 4 -> entry

EntriesAre(all_data, parsed, section, indices) ==
    /\ Len(parsed[section]) = Cardinality(indices)
    /\ \A k \in 1..Len(parsed[section]) :
        LET row == all_data[Nth(indices, k)]
        IN /\ NameOf(parsed[section][k], section) = strip(row[1])
           /\ section = 1 =>
                /\ parsed[1][k].has_width <=> lower(strip(row[2])) = Yes
                /\ parsed[1][k].has_size <=> lower(strip(row[3])) = Yes
                /\ parsed[1][k].has_length <=> lower(strip(row[4])) = Yes

ReferenceParsing_asStated ==
    returned /= <<>>
        => \A section \in 1..Len(Sections) :
            EntriesAre(call, returned[1], section, RowsOfSection_asStated(call, section))

\* C32 as it holds: the same, for the rows whose first cell is not empty.
ReferenceParsing ==
    returned /= <<>>
        => \A section \in 1..Len(Sections) :
            EntriesAre(call, returned[1], section, RowsOfSection(call, section))

\* a row of column names, a row with too few columns and a row with flags
\* in mixed case and padded, in this order in the section of product types
ReferenceParsing_witness ==
    /\ returned /= <<>>
    /\ Len(returned[1][1]) = 1
    /\ returned[1][1][1] = [type |-> <<"T", "a", "g">>, has_width |-> TRUE,
                            has_size |-> TRUE, has_length |-> FALSE]
    /\ Len(call) = 4
    /\ call[2][1] = ColumnLabel[1]
    /\ Len(call[3]) < MinColumns[1] /\ call[3][1] /= <<>>


\* C33: when the catalog cannot be read as the price is resolved, the
\* operator is told to try again and the draft stays as it was; a row with
\* unit price 0 and no price typed by hand is appended only if the search of
\* the readable catalog finds no price for the order's attributes.
CatalogFailureSurfaced ==
    \A u \in Operators :
        /\ \A callback_data \in prompt[u].options :
            LET r == handle_callback_query(u, callback_data, "catalog")
            IN  (HasDraft(u) /\ PaymentStep(callback_data, user_states[u]))
                    => /\ r.ev /= "quantity_prompt"
                       /\ r.us = user_states
        /\ \A text \in PositiveQuantities :
            LET r == handle_message_input(u, text, "none")
            IN  (/\ AwaitingQuantity(u)
                 /\ ~Has(context_user_data[u], "manual_price")
                 /\ r.ev = "sale_added"
                 /\ r.sl[Len(r.sl)][9] = 0)
                => PriceFor(context_user_data[u].user_data, TRUE) = 0


\* init_db (159-185): DROP TABLE IF EXISTS user_states, then CREATE TABLE;
\* an exception is only logged
init_db(fail) == IF fail = "write" THEN user_states ELSE EmptyDict

\* The process starts (1819-1824).  context.user_data and the results under
\* lru_cache live in the memory of the process; the messages already sent
\* stay with the users.
main ==
    \E fail \in CommandCalls :
        /\ user_states' = init_db(fail)
        /\ context_user_data' = [u \in Users |-> EmptyDict]
        /\ lru_cache' = [f \in CachedFunctions |-> <<>>]
        /\ last' = [user |-> "nobody", event |-> "main", error |-> fail]
        /\ UNCHANGED <<sales, expenses, reference_data, catalog_sheet, call,
                       returned, prompt, orders, strays, faults, spreadsheet,
                       clock, reachable>>

\* A button of the /report message, which stays on the screen.
UserReport(u) ==
    Apply(u, handle_callback_query(u, <<"report_channels">>, "none"), TRUE, "none")

LoadReference_cached == Load("get_reference_data")

\* Two users, MaxOrders orders between them, reports, reloads of the
\* reference data and starts of the process.
NextLifecycle ==
    \/ main
    \/ clear_cache
    \/ LoadReference_cached
    \/ \E u \in Users :
        \/ OrderAddEntry(u)
        \/ UserCallbackQuery(u)
        \/ UserMessageInput(u)
        \/ UserReport(u)

SpecLifecycle == Init /\ [][NextLifecycle]_vars

\* C34: the draft of a user is deleted, or a column of it emptied, only by
\* that user's finalization, cancel or /add; no action of another user, no
\* report, no reload of the cache and no start of the process does it.
DraftRemoved(u) ==
    /\ u \in DOMAIN user_states
    /\ \/ u \notin DOMAIN user_states'
       \/ \E column \in DOMAIN user_states[u] :
            user_states[u][column] /= None /\ user_states'[u][column] = None

DraftLifecycle ==
    [][\A u \in Users :
        DraftRemoved(u)
            => /\ last'.user = u
               /\ last'.event \in {"sale_added", "cancelled", "channels"}]_vars


\* C35: with widths, colour types and payment methods in the reference
\* data, every keyboard the wizard shows before the quantity prompt has a
\* button other than cancel, also for a product type without width and with
\* size or length.
Keyboards == {"channels", "types", "widths", "sizes", "lengths", "colortypes", "colors", "payments"}

NoDeadEndPrompt ==
    \A u \in Operators :
        (/\ reference_data.widths /= <<>>
         /\ reference_data.color_types /= <<>>
         /\ PaymentMethods /= <<>>
         /\ prompt[u].kind \in Keyboards)
        => prompt[u].options \ {CancelButton} /= {}


\* C36: whatever buttons and texts are sent, every row of the sales sheet
\* has a channel, a product type, a colour and a payment method, none of
\* them empty, and a positive integer quantity.
LedgerRowsComplete ==
    \A i \in 1..Len(sales) :
        /\ Truthy(sales[i][1])
        /\ Truthy(sales[i][2])
        /\ Truthy(sales[i][7])
        /\ Truthy(sales[i][11])
        /\ sales[i][8] \in Nat \ {0}


\* The expense entry of one user, any command, button or text at any time.
NextExpenses ==
    \E u \in Operators :
        \/ AddExpense(u, "strays")
        \/ SkipExpenseComment(u, "strays")
        \/ CallbackQuery(u, "strays")
        \/ MessageInput(u, "strays")

SpecExpenses == Init /\ [][NextExpenses]_vars

\* C37: whatever commands, buttons and texts are sent, a row is appended to
\* the expense sheet only when the pending expense entry of the user has a
\* category and a positive amount; it is one row, with that category and
\* amount, and the entry is over once it is written.
ExpenseRowComplete ==
    [][expenses' /= expenses
        => LET expense_data == GetOr(context_user_data[last'.user], "expense_data", EmptyDict)
           IN  /\ Has(expense_data, "category")
               /\ Has(expense_data, "amount")
               /\ expense_data["amount"] > 0
               /\ Len(expenses') = Len(expenses) + 1
               /\ SubSeq(expenses', 1, Len(expenses)) = expenses
               /\ expenses'[Len(expenses')][1] = expense_data["category"]
               /\ expenses'[Len(expenses')][2] = expense_data["amount"]
               /\ ~Has(context_user_data'[last'.user], "expense_data")]_vars


\* One user's orders one after another, every input offered, the button
\* for a price typed by hand pressed in the first order only.
FirstOrderCallbackQuery(u) ==
    \E callback_data \in Pressable :
        /\ Join(callback_data) = "manual_price" => orders = 1
        /\ Apply(u, handle_callback_query(u, callback_data, "none"),
                 OfferedButton(u, callback_data), "none")

NextManual ==
    \E u \in Operators :
        \/ UserAddEntry(u)
        \/ FirstOrderCallbackQuery(u)
        \/ UserMessageInput(u)

SpecManual == Init /\ [][NextManual]_vars

\* C38: a price typed by hand counts for the order it was typed in only:
\* the row of a later order, completed without the manual-price button, has
\* the unit price the search of the catalog gives for that order's draft.
\* Checked for a later order that follows a finalized one.
ManualPriceStaysInOrder ==
    [][\A u \in Operators :
        (/\ orders > 1
         /\ sales /= <<>>
         /\ last'.user = u
         /\ last'.event = "sale_added"
         /\ AwaitingQuantity(u))
        => sales'[Len(sales')][9] = PriceFor(user_states[u], TRUE)]_vars


\* C39: however the sale wizard and the expense entry of a user interleave,
\* a text sent once an expense category is chosen and no amount entered is
\* handled as the amount of the expense, and a text sent while the draft
\* awaits its quantity and no expense entry is pending is handled as the
\* quantity.
AwaitingAmount(u) ==
    /\ Has(context_user_data[u], "expense_data")
    /\ Has(context_user_data[u]["expense_data"], "category")
    /\ ~Has(context_user_data[u]["expense_data"], "amount")

FlowsDoNotInterfere ==
    \A u \in Operators, text \in UserTexts :
        /\ AwaitingAmount(u)
            => handle_message_input(u, text, "none") = handle_expense_amount(u, text, "none")
        /\ (AwaitingQuantity(u) /\ prompt[u].kind = "quantity_prompt"
                /\ ~Has(context_user_data[u], "expense_data"))
            => /\ handle_message_input(u, text, "none").ev
                    \in {"sale_added", "quantity_not_integer", "quantity_not_positive"}
               /\ handle_message_input(u, text, "none") = handle_quantity(u, text, "none")


\* C40: with every input offered, a draft never has both a size and a
\* length; for a product type with has_size and has_length the length is
\* never asked once the type is chosen, and the row of the order has a size
\* and an empty length.
BothFlags(product_type) ==
    /\ ProductInfo(product_type) /= <<>>
    /\ ProductInfo(product_type)[1].has_size
    /\ ProductInfo(product_type)[1].has_length

SizeOrLength ==
    /\ \A u \in Operators :
        HasDraft(u)
            => /\ ~(Truthy(user_states[u].size) /\ Truthy(user_states[u].length))
               /\ BothFlags(user_states[u].product_type)
                    => /\ prompt[u].kind /= "lengths"
                       /\ ~Truthy(user_states[u].length)
    /\ \A i \in 1..Len(sales) :
        /\ ~(sales[i][4] /= "" /\ sales[i][5] /= "")
        /\ BothFlags(sales[i][2]) => (sales[i][4] /= "" /\ sales[i][5] = "")

\* the order of a product type with both flags has been written
SizeOrLength_witness ==
    /\ last.event = "sale_added"
    /\ BothFlags(sales[Len(sales)][2])
    /\ sales[Len(sales)][4] = "M"
    /\ sales[Len(sales)][5] = ""

====
